---- MODULE Spec2Model ----
(***************************************************************************)
(* A model of the sochet chat server.                                      *)
(*                                                                         *)
(* src/ holds two generations of the server.  server/server.py (with       *)
(* server/util.py) is the complete first server: acceptor, credential      *)
(* check, registry, session loop, shutdown.  server/core/broadcaster.py,   *)
(* server/handler/admin_commands.py and server/manager.py are the          *)
(* moderation modules of the second server; the Server class that hosts    *)
(* them (its session loop and its remove_client(with_broadcast=...)) is    *)
(* not among the source files.                                             *)
(*                                                                         *)
(* Every lock-protected block of the code (with self.lock) is one atomic   *)
(* step here; steps of one thread are ordered by a program counter.        *)
(***************************************************************************)
EXTENDS Integers, Sequences, FiniteSets, TLC

(***************************************************************************)
(* Bounds of the model.                                                    *)
(***************************************************************************)
\* sockets the acceptor hands out over one run
MaxConn == 2
\* chat and command frames read by the sessions over one run
MaxFrames == 2
\* seconds the clock runs, and calls made, while the rate limiter is exercised
RateMaxTime == 11
MaxCalls == 7
\* times stop_connection is entered over one run
MaxStops == 2
\* calls of remove_client made for one connection
MaxRemoves == 2
\* calls of check_mute made over one run
MaxChecks == 3
\* pieces of the stream one recv can return
MaxRead == 4
\* fan-outs made while peers go away
MaxFanOuts == 1

Socks == 1..MaxConn

(***************************************************************************)
(* Data: users, credentials, messages on the wire.                         *)
(***************************************************************************)
\* the string the code uses for "no value" (None, "")
None == ""

\* bcrypt.hashpw: an opaque salted digest of the password
hash_password(password) == <<"bcrypt", password>>

\* bcrypt.checkpw
verify_password(password, hashed_password) == hashed_password = <<"bcrypt", password>>

\* the sample users of the server (username - password)
Usernames == {"admin", "jack", "actor-1", "actor-2"}

PasswordOf(u) ==
    CASE u = "admin" -> "admin"
      [] u = "jack" -> "admin"
      [] u = "actor-1" -> "actor1"
      [] u = "actor-2" -> "actor2"

user_db == [u \in Usernames |-> [username |-> u, password |-> hash_password(PasswordOf(u))]]

\* config.settings.WHITELIST and the peer addresses tried
WHITELIST == {"127.0.0.1"}

Addresses == {"127.0.0.1", "10.0.0.9"}

is_authorized(client_address) == client_address \in WHITELIST

\* A credential string is modelled by its parts between "::" separators:
\* one part = no separator at all.
CredInputs ==
    { <<"garbage">>,
      <<"admin", "admin">>,
      <<"actor-1", "actor1">>,
      <<"actor-1", "wrong">>,
      <<"ghost", "ghost">> }

\* A raw text the first server writes to a socket (message.encode("utf-8")).
Raw(text) == [raw |-> TRUE, flag |-> "", sender |-> "", message |-> text]

\* shared.protocol.build_response: the JSON envelope of the second server
build_response(flag, message, sender) ==
    [raw |-> FALSE, flag |-> flag, sender |-> sender, message |-> message]

DefaultTimestamp == "January 1st, 1988 00:00:00"

Payloads == <<"m1", "m2", "m3", "m4">>

(***************************************************************************)
(* State.                                                                  *)
(***************************************************************************)
VARIABLES
    is_running,   \* Server.is_running
    clients,      \* Server.clients: the registry, <<socket, username>> in insertion order
    sock,         \* each socket: "unused", "open" or "closed" (server side)
    inbox,        \* what each peer has been sent, in order
    msg_db,       \* Server.msg_db: the in-memory message log
    disk,         \* MESSAGE_DB on disk
    saves,        \* number of save_message calls
    nconn,        \* sockets accepted so far
    conn,         \* per socket: the peer address, the credentials it sent, and
                  \* whether that username was banned then
    task,         \* per socket: where its session task is
    uname,        \* per socket: the username argument of its session task
    pending,      \* per socket: the frame parsed and broadcast, not yet logged
    nframes,      \* chat frames read so far
    stop_pc,      \* where stop_connection is
    snapshot,     \* stop_connection's list(self.clients.keys())
    late,         \* sockets inserted into the registry after stop began
    muted_users,  \* server.muted_users: username -> [until, warned]
    db_bans,      \* server.db_bans: the ban set
    user_timestamps, \* Broadcaster.message_rate_limit["user_timestamps"]: socket -> deque
    now,          \* time.time(), in seconds
    sent,         \* per socket: the chat texts its session has broadcast, in program order
    allowed,      \* per socket: the times at which the policy check called on its own allowed a frame
    ncalls,       \* calls of that policy check (check_rate_limit, check_mute) made so far
    ban_db,       \* the ban list on disk (BANNED_USER_DB), as save_banned_users wrote it
    ban_hist,     \* the last /ban that added a user: the user, and the ban set and list before it
    removes,      \* per socket: the calls of remove_client made for it by RemoveClient
    codec,        \* per socket, the peer's reader (Client.read_message): what it has read of
                  \* the stream, the envelopes it has dispatched, whether it still runs
    lock,         \* Server.lock (threading.RLock): the owning thread and how often it holds it
    ops,          \* per thread: the primitive steps it has still to run
    mute_local,   \* per socket: the locals of the check_mute call its session is in
    mgr           \* the ClientManager: its maps, its lock, its pool and its callers

vars == <<is_running, clients, sock, inbox, msg_db, disk, saves, nconn, conn,
          task, uname, pending, nframes, stop_pc, snapshot, late,
          muted_users, db_bans, user_timestamps, now, sent, allowed, ncalls,
          ban_db, ban_hist, removes, codec, lock, ops, mute_local, mgr>>

\* the state of the moderation modules
modVars == <<muted_users, db_bans, user_timestamps, now, sent, allowed, ncalls,
             ban_db, ban_hist, removes, codec, lock, ops, mute_local, mgr>>

NoBan == [user |-> "", bans |-> {}, list |-> {}, undone |-> FALSE]

NoConn == [addr |-> None, cred |-> <<>>, banned |-> FALSE]

NoFrame == <<>>

\* a session that is not inside check_mute
NoLocal ==
    [active |-> FALSE, t |-> 0, found |-> FALSE,
     mute_info |-> [until |-> 0, warned |-> FALSE], same |-> FALSE]

\* ClientManager.__init__: empty maps, a free lock, a running pool; nobody
\* has called anything yet
NewManager ==
    [exit_flags |-> {}, futures |-> {}, lock |-> "free", executor |-> "up",
     events |-> {},
     register |-> [c \in Socks |-> "idle"],
     handler |-> [c \in Socks |-> "none"],
     shutdown_all |-> "idle"]

Init ==
    /\ is_running = TRUE
    /\ clients = <<>>
    /\ sock = [c \in Socks |-> "unused"]
    /\ inbox = [c \in Socks |-> <<>>]
    /\ msg_db = <<>>
    /\ disk = <<>>
    /\ saves = 0
    /\ nconn = 0
    /\ conn = [c \in Socks |-> NoConn]
    /\ task = [c \in Socks |-> "none"]
    /\ uname = [c \in Socks |-> None]
    /\ pending = [c \in Socks |-> NoFrame]
    /\ nframes = 0
    /\ stop_pc = "idle"
    /\ snapshot = <<>>
    /\ late = {}
    /\ muted_users = [u \in {} |-> [until |-> 0, warned |-> FALSE]]
    /\ db_bans = {}
    /\ user_timestamps = [c \in {} |-> <<>>]
    /\ now = 0
    /\ sent = [c \in Socks |-> <<>>]
    /\ allowed = [c \in Socks |-> <<>>]
    /\ ncalls = 0
    /\ ban_db = {}
    /\ ban_hist = NoBan
    /\ removes = [c \in Socks |-> 0]
    /\ codec = [c \in Socks |-> [pos |-> 0, out |-> <<>>, running |-> TRUE]]
    /\ lock = [owner |-> 0, depth |-> 0]
    /\ ops = [t \in 0..MaxConn |-> <<>>]
    /\ mute_local = [c \in Socks |-> NoLocal]
    /\ mgr = NewManager

(***************************************************************************)
(* The registry and the sends, as functions of the registry state          *)
(* R = [clients, sock, inbox].                                             *)
(***************************************************************************)
R == [clients |-> clients, sock |-> sock, inbox |-> inbox]

Range(f) == {f[i] : i \in DOMAIN f}

\* keys of the registry
Keys(cl) == {cl[i][1] : i \in DOMAIN cl}

\* list(self.clients.values())
Values(cl) == [i \in DOMAIN cl |-> cl[i][2]]

\* self.clients.pop(client_socket)
Pop(cl, c) == SelectSeq(cl, LAMBDA e : e[1] # c)

NameOf(cl, c) == (CHOOSE e \in Range(cl) : e[1] = c)[2]

\* Server.handle_message: socket.send; a failing send (closed socket) is logged only
handle_message(s, c, m) ==
    IF s.sock[c] = "open"
    THEN [s EXCEPT !.inbox[c] = Append(@, m)]
    ELSE s

\* Server.broadcast: the exclude_socket parameter is never read
broadcast(s, m) ==
    [s EXCEPT !.inbox = [c \in Socks |->
        IF c \in Keys(s.clients) /\ s.sock[c] = "open" THEN Append(s.inbox[c], m)
        ELSE s.inbox[c]]]

\* Server.broadcast_active_users
broadcast_active_users(s) ==
    broadcast(s, Raw(<<"ACTIVE_USERS">> \o Values(s.clients)))

\* a remove that does not look the socket up first
remove_client_again(s, c, stopped) ==
    LET username == uname[c]
        s1 == [s EXCEPT !.clients = Pop(@, c)]
        s2 == IF stopped THEN handle_message(s1, c, Raw(<<"SERVER_SHUTDOWN">>)) ELSE s1
        s3 == [s2 EXCEPT !.sock[c] = "closed"]
    IN  IF stopped THEN s3
        ELSE broadcast_active_users(
                 broadcast(s3, Raw(<<username, "has left the chat!">>)))

\* a remove that closes the socket before it tells the peer
remove_client_close_first(s, c, stopped) ==
    IF c \notin Keys(s.clients) THEN s
    ELSE LET username == NameOf(s.clients, c)
             s1 == [s EXCEPT !.clients = Pop(@, c), !.sock[c] = "closed"]
             s2 == IF stopped THEN handle_message(s1, c, Raw(<<"SERVER_SHUTDOWN">>)) ELSE s1
         IN  IF stopped THEN s2
             ELSE broadcast_active_users(
                      broadcast(s2, Raw(<<username, "has left the chat!">>)))

\* Server.remove_client
remove_client(s, c, stopped) ==
    IF c \notin Keys(s.clients) THEN s
    ELSE LET username == NameOf(s.clients, c)
             s1 == [s EXCEPT !.clients = Pop(@, c)]
             s2 == IF stopped THEN handle_message(s1, c, Raw(<<"SERVER_SHUTDOWN">>)) ELSE s1
             s3 == [s2 EXCEPT !.sock[c] = "closed"]
         IN  IF stopped THEN s3
             ELSE broadcast_active_users(
                      broadcast(s3, Raw(<<username, "has left the chat!">>)))

\* Server.verify_user: [username, error]
verify_user(credentials) ==
    IF Len(credentials) = 1 THEN [username |-> None, error |-> "AUTH_FAILED"]
    ELSE LET username == credentials[1]
             password == credentials[2]
         IN  IF username \notin DOMAIN user_db
             THEN [username |-> None, error |-> "AUTH_FAILED"]
             ELSE IF verify_password(password, user_db[username].password)
                  THEN [username |-> username, error |-> None]
                  ELSE [username |-> None, error |-> "AUTH_FAILED"]

\* Server.process_new_connection, up to the submit
process_new_connection(s, c, username) ==
    broadcast(handle_message(s, c, Raw(<<"AUTH_SUCCESS">>)),
              Raw(<<username, "has joined the chat!">>))

\* server.util.parse_message: data.split("::", 2), or the fallback user
parse_message(data, fallback_user) ==
    IF Len(data) > 1 THEN data
    ELSE <<fallback_user, DefaultTimestamp, data[1]>>

SetR(s) ==
    /\ clients' = s.clients
    /\ sock' = s.sock
    /\ inbox' = s.inbox

(***************************************************************************)
(* The acceptor (main thread).                                             *)
(***************************************************************************)
\* Server.accept_and_handle_connection, one pass of the accept loop
Accept(addr, cred) ==
    /\ is_running
    /\ stop_pc = "idle"
    /\ nconn < MaxConn
    /\ LET c == nconn + 1
           s0 == [R EXCEPT !.sock[c] = "open"]
           v == verify_user(cred)
       IN  /\ nconn' = c
           /\ conn' = [conn EXCEPT ![c] =
                  [addr |-> addr, cred |-> cred,
                   banned |-> Len(cred) > 1 /\ cred[1] \in db_bans]]
           /\ IF ~is_authorized(addr) \/ v.error # None \/ v.username = None
              THEN /\ SetR([s0 EXCEPT !.sock[c] = "closed"])
                   /\ UNCHANGED <<task, uname>>
              ELSE /\ SetR(process_new_connection(s0, c, v.username))
                   /\ task' = [task EXCEPT ![c] = "queued"]
                   /\ uname' = [uname EXCEPT ![c] = v.username]
    /\ UNCHANGED <<is_running, msg_db, disk, saves, pending, nframes, stop_pc,
                   snapshot, late>>
    /\ UNCHANGED modVars

(***************************************************************************)
(* A session task (pool thread): Server.handle_client.                     *)
(***************************************************************************)
\* the locked block: insert, then broadcast_active_users
HandleClient(c) ==
    /\ task[c] = "queued"
    /\ SetR(broadcast_active_users(
               [R EXCEPT !.clients = Append(@, <<c, uname[c]>>)]))
    /\ task' = [task EXCEPT ![c] = "loop"]
    /\ late' = IF is_running THEN late ELSE late \cup {c}
    /\ UNCHANGED <<is_running, msg_db, disk, saves, nconn, conn, uname, pending,
                   nframes, stop_pc, snapshot>>
    /\ UNCHANGED modVars

\* a loop that never looks at is_running
LoopCheckBlind(c) ==
    /\ task[c] = "loop"
    /\ task' = [task EXCEPT ![c] = "recv"]
    /\ UNCHANGED <<is_running, clients, sock, inbox, msg_db, disk, saves, nconn,
                   conn, uname, pending, nframes, stop_pc, snapshot, late>>
    /\ UNCHANGED modVars

\* while self.is_running:
LoopCheck(c) ==
    /\ task[c] = "loop"
    /\ task' = [task EXCEPT ![c] = IF is_running THEN "recv" ELSE "done"]
    /\ UNCHANGED <<is_running, clients, sock, inbox, msg_db, disk, saves, nconn,
                   conn, uname, pending, nframes, stop_pc, snapshot, late>>
    /\ UNCHANGED modVars

\* What recv can give: a timeout, data (its parts between "::"), or an exception.
RecvData == {<<"">>, <<"CLIENT_QUIT">>, <<"x", "y">>}

RecvErrors == {"timeout", "ConnectionResetError", "BrokenPipeError", "Exception"}

\* Server.process_client_message, up to and including self.broadcast
ProcessData(c, data) ==
    /\ task[c] = "recv"
    /\ sock[c] = "open"
    /\ IF data[1] = "" /\ Len(data) = 1
       THEN /\ task' = [task EXCEPT ![c] = "loop"]
            /\ UNCHANGED <<clients, sock, inbox, pending>>
       ELSE IF Len(data) = 2
       THEN \* the three-name unpacking raises ValueError: except Exception
            /\ task' = [task EXCEPT ![c] = "done"]
            /\ UNCHANGED <<clients, sock, inbox, pending>>
       ELSE LET p == parse_message(data, uname[c])
            IN  IF p[3] = "CLIENT_QUIT"
                THEN /\ SetR(remove_client(R, c, FALSE))
                     /\ task' = [task EXCEPT ![c] = "done"]
                     /\ UNCHANGED pending
                ELSE /\ SetR(broadcast(R, Raw(p)))
                     /\ pending' = [pending EXCEPT ![c] = p]
                     /\ task' = [task EXCEPT ![c] = "append"]
    /\ UNCHANGED <<is_running, msg_db, disk, saves, nconn, conn, uname, nframes,
                   stop_pc, snapshot, late>>
    /\ UNCHANGED modVars

\* a chat frame: fresh text, no "::" in it
ProcessChat(c) ==
    /\ nframes < MaxFrames
    /\ nframes' = nframes + 1
    /\ task[c] = "recv"
    /\ sock[c] = "open"
    /\ LET p == parse_message(<<Payloads[nframes + 1]>>, uname[c])
       IN  /\ SetR(broadcast(R, Raw(p)))
           /\ pending' = [pending EXCEPT ![c] = p]
           /\ task' = [task EXCEPT ![c] = "append"]
    /\ UNCHANGED <<is_running, msg_db, disk, saves, nconn, conn, uname,
                   stop_pc, snapshot, late>>
    /\ UNCHANGED modVars

\* self.msg_db.append(...), outside the lock
AppendMessage(c) ==
    /\ task[c] = "append"
    /\ msg_db' = Append(msg_db, [user |-> pending[c][1], message |-> pending[c][3],
                                 timestamp |-> pending[c][2]])
    /\ pending' = [pending EXCEPT ![c] = NoFrame]
    /\ task' = [task EXCEPT ![c] = "loop"]
    /\ UNCHANGED <<is_running, clients, sock, inbox, disk, saves, nconn, conn,
                   uname, nframes, stop_pc, snapshot, late>>
    /\ UNCHANGED modVars

\* recv raises: socket.timeout, ConnectionResetError, BrokenPipeError, or any
\* other exception (a socket closed by another thread gives OSError)
ProcessError(c, e) ==
    /\ task[c] = "recv"
    /\ sock[c] = "closed" => e = "Exception"
    /\ IF e = "timeout"
       THEN /\ task' = [task EXCEPT ![c] = "loop"]
            /\ UNCHANGED <<clients, sock, inbox>>
       ELSE IF e \in {"ConnectionResetError", "BrokenPipeError"}
       THEN /\ SetR(remove_client(R, c, FALSE))
            /\ task' = [task EXCEPT ![c] = "done"]
       ELSE /\ task' = [task EXCEPT ![c] = "done"]
            /\ UNCHANGED <<clients, sock, inbox>>
    /\ UNCHANGED <<is_running, msg_db, disk, saves, nconn, conn, uname, pending,
                   nframes, stop_pc, snapshot, late>>
    /\ UNCHANGED modVars

(***************************************************************************)
(* Server.stop_connection (main thread: the SIGINT handler, or the         *)
(* acceptor after an OSError).                                             *)
(***************************************************************************)
\* self.is_running = False
StopBegin ==
    /\ stop_pc = "idle"
    /\ is_running' = FALSE
    /\ stop_pc' = "save"
    /\ UNCHANGED <<clients, sock, inbox, msg_db, disk, saves, nconn, conn, task,
                   uname, pending, nframes, snapshot, late>>
    /\ UNCHANGED modVars

\* self.save_message()
StopSave ==
    /\ stop_pc = "save"
    /\ disk' = msg_db
    /\ saves' = saves + 1
    /\ stop_pc' = "snapshot"
    /\ UNCHANGED <<is_running, clients, sock, inbox, msg_db, nconn, conn, task,
                   uname, pending, nframes, snapshot, late>>
    /\ UNCHANGED modVars

\* self.server.close(); list(self.clients.keys())
StopSnapshot ==
    /\ stop_pc = "snapshot"
    /\ snapshot' = [i \in DOMAIN clients |-> clients[i][1]]
    /\ stop_pc' = "sweep"
    /\ UNCHANGED <<is_running, clients, sock, inbox, msg_db, disk, saves, nconn,
                   conn, task, uname, pending, nframes, late>>
    /\ UNCHANGED modVars

\* one pass of the for loop: self.remove_client(client_socket, stopped=True)
StopSweep ==
    /\ stop_pc = "sweep"
    /\ IF snapshot = <<>>
       THEN /\ stop_pc' = "done"
            /\ UNCHANGED <<clients, sock, inbox, snapshot>>
       ELSE /\ SetR(remove_client(R, Head(snapshot), TRUE))
            /\ snapshot' = Tail(snapshot)
            /\ UNCHANGED stop_pc
    /\ UNCHANGED <<is_running, msg_db, disk, saves, nconn, conn, task, uname,
                   pending, nframes, late>>
    /\ UNCHANGED modVars

\* stop_connection has returned and the main thread waits for the pool to
\* drain; a SIGINT arrives and signal_handler calls stop_connection again
StopAgain ==
    /\ stop_pc = "done"
    /\ saves < MaxStops
    /\ stop_pc' = "save"
    /\ UNCHANGED <<is_running, clients, sock, inbox, msg_db, disk, saves, nconn,
                   conn, task, uname, pending, nframes, snapshot, late>>
    /\ UNCHANGED modVars

Next ==
    \/ \E addr \in Addresses, cred \in CredInputs : Accept(addr, cred)
    \/ \E c \in Socks : HandleClient(c)
    \/ \E c \in Socks : LoopCheck(c)
    \/ \E c \in Socks, data \in RecvData : ProcessData(c, data)
    \/ \E c \in Socks : ProcessChat(c)
    \/ \E c \in Socks : AppendMessage(c)
    \/ \E c \in Socks, e \in RecvErrors : ProcessError(c, e)
    \/ StopBegin
    \/ StopSave
    \/ StopSnapshot
    \/ StopSweep
    \/ StopAgain

Spec == Init /\ [][Next]_vars

(***************************************************************************)
(* Shutdown while sessions run: logins, chat frames, read timeouts, and    *)
(* one stop_connection.  Pool threads are scheduled (the pool has more     *)
(* workers than there are sockets here) and every recv returns within the  *)
(* one-second socket timeout, so each session step is weakly fair.         *)
(***************************************************************************)
StopAccept == Accept("127.0.0.1", <<"actor-1", "actor1">>)

\* recv with nothing to read: the timeout, or OSError once the socket is closed
RecvIdle(c) ==
    ProcessError(c, IF sock[c] = "open" THEN "timeout" ELSE "Exception")

\* a chat frame that is read while stop_connection is under way
StopChat(c) == ~is_running /\ ProcessChat(c)

SessionStep(c) ==
    \/ HandleClient(c)
    \/ LoopCheck(c)
    \/ StopChat(c)
    \/ AppendMessage(c)
    \/ RecvIdle(c)

NextStop ==
    \/ StopAccept
    \/ \E c \in Socks : HandleClient(c)
    \/ \E c \in Socks : LoopCheck(c)
    \/ \E c \in Socks : StopChat(c)
    \/ \E c \in Socks : AppendMessage(c)
    \/ \E c \in Socks : RecvIdle(c)
    \/ StopBegin
    \/ StopSave
    \/ StopSnapshot
    \/ StopSweep

SpecStop ==
    Init /\ [][NextStop]_vars /\ \A c \in Socks : WF_vars(SessionStep(c))

(***************************************************************************)
(* The moderation modules: Broadcaster (server/core/broadcaster.py) and    *)
(* Commands (server/handler/admin_commands.py), as functions of the        *)
(* server state M they reach through self.server.                          *)
(***************************************************************************)
M == [clients |-> clients, sock |-> sock, inbox |-> inbox, msg_db |-> msg_db,
      muted_users |-> muted_users, db_bans |-> db_bans,
      user_timestamps |-> user_timestamps, ban_db |-> ban_db]

SetM(s) ==
    /\ clients' = s.clients
    /\ sock' = s.sock
    /\ inbox' = s.inbox
    /\ msg_db' = s.msg_db
    /\ muted_users' = s.muted_users
    /\ db_bans' = s.db_bans
    /\ user_timestamps' = s.user_timestamps
    /\ ban_db' = s.ban_db

\* d[k] = v on a dict
Put(d, k, v) == [x \in DOMAIN d \cup {k} |-> IF x = k THEN v ELSE d[x]]

\* del d[k]
Del(d, k) == [x \in DOMAIN d \ {k} |-> d[x]]

\* shared.flags
ADMIN_MSG == "ADMIN_MSG"

ADMIN_MUTE == "ADMIN_MUTE"

USER_LIST_UPDATE == "USER_LIST_UPDATE"

\* Broadcaster.message_rate_limit
interval == 10

max_messages == 5

\* the user records of the second server carry a role
db_user ==
    [u \in Usernames |->
        [username |-> u, password |-> hash_password(PasswordOf(u)),
         role |-> IF u \in {"admin", "jack"} THEN "admin" ELSE "user"]]

\* server.admin_names
admin_names == {u \in DOMAIN db_user : db_user[u].role = "admin"}

\* a send that puts the envelope ahead of what the peer was sent before
send_msg_to_front(s, client, flag, message, sender) ==
    IF s.sock[client] = "open"
    THEN [s EXCEPT !.inbox[client] = <<build_response(flag, message, sender)>> \o @]
    ELSE s

\* Broadcaster.send_msg_to: sendall under the server lock; a failing send is logged only
send_msg_to(s, client, flag, message, sender) ==
    IF s.sock[client] = "open"
    THEN [s EXCEPT !.inbox[client] = Append(@, build_response(flag, message, sender))]
    ELSE s

RECURSIVE SendEachUntilFailure(_, _, _, _, _)
\* a loop that a failing send ends
SendEachUntilFailure(s, targets, flag, message, sender) ==
    IF targets = <<>> \/ s.sock[Head(targets)] # "open" THEN s
    ELSE SendEachUntilFailure(send_msg_to(s, Head(targets), flag, message, sender),
                              Tail(targets), flag, message, sender)

RECURSIVE SendEach(_, _, _, _, _)
\* for client in ...: self.send_msg_to(client, flag, message, sender)
SendEach(s, targets, flag, message, sender) ==
    IF targets = <<>> THEN s
    ELSE SendEach(send_msg_to(s, Head(targets), flag, message, sender),
                  Tail(targets), flag, message, sender)

KeyList(cl) == [i \in DOMAIN cl |-> cl[i][1]]

\* Broadcaster.broadcast_message
broadcast_message(s, skip_socket, flag, message, sender) ==
    LET s1 == SendEach(s, SelectSeq(KeyList(s.clients), LAMBDA c : c # skip_socket),
                       flag, message, sender)
    IN  IF flag = "" /\ sender # ""
        THEN [s1 EXCEPT !.msg_db = Append(@, build_response(flag, message, sender))]
        ELSE s1

\* Broadcaster.broadcast_active_users
announce_active_users(s) ==
    SendEach(s, KeyList(s.clients), USER_LIST_UPDATE, Values(s.clients), "")

\* a mute check that warns on every refused frame
check_mute_nag(s, client, username, t) ==
    IF username \notin DOMAIN s.muted_users THEN [allow |-> TRUE, s |-> s]
    ELSE LET unmute_time == s.muted_users[username].until
         IN  IF t < unmute_time
             THEN [allow |-> FALSE,
                   s |-> send_msg_to(s, client, ADMIN_MSG,
                             <<"You are muted for", ToString(unmute_time - t),
                               "more second(s).">>, "")]
             ELSE [allow |-> TRUE,
                   s |-> [s EXCEPT !.muted_users = Del(@, username)]]

\* a mute check that lets a muted user through
check_mute_open(s, client, username, t) == [allow |-> TRUE, s |-> s]

\* Broadcaster.check_mute: [allow, s]
check_mute(s, client, username, t) ==
    IF username \notin DOMAIN s.muted_users THEN [allow |-> TRUE, s |-> s]
    ELSE LET mute_info == s.muted_users[username]
             unmute_time == mute_info.until
         IN  IF t < unmute_time
             THEN [allow |-> FALSE,
                   s |-> IF ~mute_info.warned
                         THEN [send_msg_to(s, client, ADMIN_MSG,
                                   <<"You are muted for", ToString(unmute_time - t),
                                     "more second(s).">>, "")
                                 EXCEPT !.muted_users[username].warned = TRUE]
                         ELSE s]
             ELSE [allow |-> TRUE,
                   s |-> [s EXCEPT !.muted_users = Del(@, username)]]

RECURSIVE DropOld(_, _)
\* while user_history and now - user_history[0] > interval: popleft()
DropOld(user_history, t) ==
    IF user_history # <<>> /\ t - Head(user_history) > interval
    THEN DropOld(Tail(user_history), t)
    ELSE user_history

RECURSIVE DropOldEarly(_, _)
\* the window test with >= in place of >
DropOldEarly(user_history, t) ==
    IF user_history # <<>> /\ t - Head(user_history) >= interval
    THEN DropOldEarly(Tail(user_history), t)
    ELSE user_history

\* Broadcaster.check_rate_limit with the early window test
check_rate_limit_early(s, client, t) ==
    LET user_history ==
            DropOldEarly(IF client \in DOMAIN s.user_timestamps
                         THEN s.user_timestamps[client] ELSE <<>>, t)
    IN  IF Len(user_history) >= max_messages
        THEN [allow |-> FALSE,
              s |-> send_msg_to(
                        [s EXCEPT !.user_timestamps = Put(@, client, user_history)],
                        client, ADMIN_MSG,
                        <<"Rate limit: max", ToString(max_messages), "messages every",
                          ToString(interval), "s. Please slow down.">>, "")]
        ELSE [allow |-> TRUE,
              s |-> [s EXCEPT !.user_timestamps = Put(@, client, Append(user_history, t))]]

\* a limiter that never forgets a timestamp
check_rate_limit_stuck(s, client, t) ==
    LET user_history ==
            IF client \in DOMAIN s.user_timestamps THEN s.user_timestamps[client] ELSE <<>>
    IN  IF Len(user_history) >= max_messages
        THEN [allow |-> FALSE,
              s |-> send_msg_to(s, client, ADMIN_MSG,
                        <<"Rate limit: max", ToString(max_messages), "messages every",
                          ToString(interval), "s. Please slow down.">>, "")]
        ELSE [allow |-> TRUE,
              s |-> [s EXCEPT !.user_timestamps = Put(@, client, Append(user_history, t))]]

\* Broadcaster.check_rate_limit: [allow, s]
check_rate_limit(s, client, t) ==
    LET user_history ==
            DropOld(IF client \in DOMAIN s.user_timestamps
                    THEN s.user_timestamps[client] ELSE <<>>, t)
    IN  IF Len(user_history) >= max_messages
        THEN [allow |-> FALSE,
              s |-> send_msg_to(
                        [s EXCEPT !.user_timestamps = Put(@, client, user_history)],
                        client, ADMIN_MSG,
                        <<"Rate limit: max", ToString(max_messages), "messages every",
                          ToString(interval), "s. Please slow down.">>, "")]
        ELSE [allow |-> TRUE,
              s |-> [s EXCEPT !.user_timestamps = Put(@, client, Append(user_history, t))]]

(***************************************************************************)
(* Commands: /kick, /ban, /unban, /mute, /help.  A command is the list of  *)
(* its whitespace-separated parts.                                         *)
(***************************************************************************)
\* Commands.admin_command (the command names)
admin_command == {"/kick", "/ban", "/unban", "/mute", "/help"}

\* str.lower on the words the model sends
Lower(word) ==
    CASE word = "/BAN" -> "/ban"
      [] word = "2S" -> "2s"
      [] OTHER -> word

\* cmd[1:], the command word without its slash
Tail1(cmd) ==
    CASE cmd = "/kick" -> "kick"
      [] cmd = "/ban" -> "ban"
      [] cmd = "/unban" -> "unban"
      [] cmd = "/mute" -> "mute"
      [] cmd = "/help" -> "help"

\* the characters of a duration word
Chars(word) ==
    CASE word = "2s" -> <<"2", "s">>
      [] word = "1s" -> <<"1", "s">>
      [] word = "1m" -> <<"1", "m">>
      [] word = "s" -> <<"s">>
      [] word = "xs" -> <<"x", "s">>
      [] word = "2" -> <<"2">>
      [] word = "2S" -> <<"2", "S">>
      [] OTHER -> <<>>

Digits == <<"0", "1", "2", "3", "4", "5", "6", "7", "8", "9">>

\* str.isdigit
isdigit(chars) == chars # <<>> /\ \A i \in DOMAIN chars : chars[i] \in Range(Digits)

DigitValue(ch) == (CHOOSE i \in DOMAIN Digits : Digits[i] = ch) - 1

RECURSIVE int(_)
\* int() of a digit string
int(chars) ==
    IF chars = <<>> THEN 0
    ELSE 10 * int(SubSeq(chars, 1, Len(chars) - 1)) + DigitValue(chars[Len(chars)])

unit_multipliers == [u \in {"s", "m", "h"} |-> CASE u = "s" -> 1 [] u = "m" -> 60 [] u = "h" -> 3600]

\* Commands.find_client_by_username: the first socket bound to the name, or 0 (None)
find_client_by_username(s, username) ==
    IF \E i \in DOMAIN s.clients : s.clients[i][2] = username
    THEN s.clients[CHOOSE i \in DOMAIN s.clients :
             /\ s.clients[i][2] = username
             /\ \A j \in 1..(i - 1) : s.clients[j][2] # username][1]
    ELSE 0

\* server.remove_client(client, with_broadcast=False) of the second server:
\* remove the entry and close the socket, announce nothing
remove_client_silent(s, c) ==
    IF c \notin Keys(s.clients) THEN s
    ELSE [s EXCEPT !.clients = Pop(@, c), !.sock[c] = "closed"]

\* Commands.save_banned_users: the file holds list(db_bans), in no fixed order
save_banned_users(s) == [s EXCEPT !.ban_db = s.db_bans]

\* a help that tells everybody
admin_action_help_all(s, admin_socket) ==
    broadcast_message(s, 0, ADMIN_MSG, <<"Admin Commands:">>, "")

\* Commands.admin_action_help
admin_action_help(s, admin_socket) ==
    send_msg_to(s, admin_socket, ADMIN_MSG, <<"Admin Commands:">>, "")

\* a kick that removes the way a leave does
admin_action_kick_loud(s, admin_socket, target_name, kicked_by) ==
    LET client == find_client_by_username(s, target_name)
    IN  IF client = 0
        THEN send_msg_to(s, admin_socket, ADMIN_MSG,
                         <<"User", target_name, "is not online.">>, "")
        ELSE announce_active_users(
                 remove_client(
                     broadcast_message(s, 0, "",
                         <<target_name, "was kicked by [ADMIN]", kicked_by>>, ""),
                     client, FALSE))

\* Commands.admin_action_kick
admin_action_kick(s, admin_socket, target_name, kicked_by) ==
    LET client == find_client_by_username(s, target_name)
    IN  IF client = 0
        THEN send_msg_to(s, admin_socket, ADMIN_MSG,
                         <<"User", target_name, "is not online.">>, "")
        ELSE announce_active_users(
                 remove_client_silent(
                     broadcast_message(s, 0, "",
                         <<target_name, "was kicked by [ADMIN]", kicked_by>>, ""),
                     client))

\* a ban that takes every ordinary user with it
admin_action_ban_wide(s, admin_socket, target_name, banned_by) ==
    broadcast_message(
        save_banned_users(
            [s EXCEPT !.db_bans = @ \cup {u \in DOMAIN db_user : db_user[u].role # "admin"}]),
        0, "", <<target_name, "was banned by [ADMIN]", banned_by>>, "")

\* Commands.admin_action_ban
admin_action_ban(s, admin_socket, target_name, banned_by) ==
    IF target_name \notin DOMAIN db_user
    THEN send_msg_to(s, admin_socket, ADMIN_MSG,
                     <<"Cannot ban", target_name, ": user does not exist.">>, "")
    ELSE IF db_user[target_name].role = "admin"
    THEN send_msg_to(s, admin_socket, ADMIN_MSG,
                     <<"You cannot ban another admin:", target_name>>, "")
    ELSE LET s1 == save_banned_users([s EXCEPT !.db_bans = @ \cup {target_name}])
             client == find_client_by_username(s1, target_name)
             s2 == IF client # 0 THEN remove_client_silent(s1, client) ELSE s1
         IN  announce_active_users(
                 broadcast_message(s2, 0, "",
                     <<target_name, "was banned by [ADMIN]", banned_by>>, ""))

\* Commands.admin_action_unban
admin_action_unban(s, admin_socket, target_name, unbanned_by) ==
    IF target_name \notin DOMAIN db_user
    THEN send_msg_to(s, admin_socket, ADMIN_MSG,
                     <<"Cannot unban", target_name, ": user does not exist.">>, "")
    ELSE IF target_name \notin s.db_bans
    THEN send_msg_to(s, admin_socket, ADMIN_MSG,
                     <<"Cannot unban", target_name, ": user is not banned.">>, "")
    ELSE broadcast_message(
             save_banned_users([s EXCEPT !.db_bans = @ \ {target_name}]), 0, "",
             <<target_name, "has been unbanned by [ADMIN]", unbanned_by>>, "")

\* Commands.admin_action_mute
admin_action_mute(s, admin_socket, target_name, muted_by, command, t) ==
    LET client == find_client_by_username(s, target_name)
    IN  IF client = 0
        THEN send_msg_to(s, admin_socket, ADMIN_MSG,
                         <<"Cannot mute", target_name, ": user not in the chat.">>, "")
        ELSE IF Len(command) < 3
        THEN send_msg_to(s, admin_socket, ADMIN_MSG,
                         <<"Invalid syntax. Use: /mute <username> <duration>">>, "")
        ELSE LET duration_str == Lower(command[3])
                 chars == Chars(duration_str)
                 unit == chars[Len(chars)]
                 amount == SubSeq(chars, 1, Len(chars) - 1)
             IN  IF unit \notin DOMAIN unit_multipliers \/ ~isdigit(amount)
                 THEN send_msg_to(s, admin_socket, ADMIN_MSG,
                                  <<"Invalid duration. Use 10s, 2m, or 1h.">>, "")
                 ELSE LET seconds == int(amount) * unit_multipliers[unit]
                          mute_expiration == t + seconds
                          s1 == [s EXCEPT !.muted_users =
                                    Put(@, target_name,
                                        [until |-> mute_expiration, warned |-> FALSE])]
                      IN  broadcast_message(
                              send_msg_to(s1, client, ADMIN_MUTE, amount, ""),
                              0, "",
                              <<target_name, "has been muted by [ADMIN]", muted_by,
                                "for", duration_str>>, "")

\* a dispatch without the test for the sender and the admins
handle_admin_command_unguarded(s, admin_socket, command, sender, t) ==
    LET cmd == Lower(command[1])
        target_name == command[2]
    IN  CASE cmd = "/kick" -> admin_action_kick(s, admin_socket, target_name, sender)
          [] cmd = "/ban" -> admin_action_ban(s, admin_socket, target_name, sender)
          [] cmd = "/unban" -> admin_action_unban(s, admin_socket, target_name, sender)
          [] cmd = "/mute" -> admin_action_mute(s, admin_socket, target_name, sender,
                                                command, t)
          [] OTHER -> admin_action_help(s, admin_socket)

\* Commands.handle_admin_command
handle_admin_command(s, admin_socket, command, sender, t) ==
    IF command = <<>> THEN s
    ELSE LET cmd == Lower(command[1])
         IN  IF cmd \notin admin_command
             THEN send_msg_to(s, admin_socket, ADMIN_MSG, <<"Unknown command. Use /help.">>, "")
             ELSE IF cmd = "/help" THEN admin_action_help(s, admin_socket)
             ELSE IF Len(command) < 2
             THEN send_msg_to(s, admin_socket, ADMIN_MSG, <<"Missing target username.">>, "")
             ELSE LET target_name == command[2]
                  IN  IF target_name = sender \/ target_name \in admin_names
                      THEN send_msg_to(s, admin_socket, ADMIN_MSG,
                               <<"You cannot", Tail1(cmd), "yourself or another admin.">>, "")
                      ELSE CASE cmd = "/kick" ->
                                    admin_action_kick(s, admin_socket, target_name, sender)
                             [] cmd = "/ban" ->
                                    admin_action_ban(s, admin_socket, target_name, sender)
                             [] cmd = "/unban" ->
                                    admin_action_unban(s, admin_socket, target_name, sender)
                             [] cmd = "/mute" ->
                                    admin_action_mute(s, admin_socket, target_name, sender,
                                                      command, t)

(***************************************************************************)
(* The session loop of the second server, whose source is not among the    *)
(* files: one frame goes through quit, mute check, rate check, admin       *)
(* command, broadcast, in that order.                                      *)
(***************************************************************************)
StartsWithSlash(word) ==
    word \in {"/kick", "/ban", "/unban", "/mute", "/help", "/BAN", "/bogus"}

\* the commands the admin sessions send here
CoreCommands ==
    { <<"/ban", "actor-1">>,
      <<"/unban", "actor-1">>,
      <<"/mute", "actor-1", "1s">> }

ValidCreds == { <<"admin", "admin">>, <<"actor-1", "actor1">> }

\* seconds that may pass between two frames
Elapsed == {0, 1}

\* one frame, read dt seconds after the previous one: a fresh chat text, or a
\* command from an admin
SessionFrame(c, frame, dt) ==
    /\ task[c] = "loop"
    /\ c \in Keys(clients)
    /\ sock[c] = "open"
    /\ nframes < MaxFrames
    /\ nframes' = nframes + 1
    /\ now' = now + dt
    /\ LET username == uname[c]
           m == check_mute(M, c, username, now')
           r == check_rate_limit(m.s, c, now')
       IN  IF ~m.allow THEN SetM(m.s) /\ UNCHANGED sent
           ELSE IF ~r.allow THEN SetM(r.s) /\ UNCHANGED sent
           ELSE IF username \in admin_names /\ StartsWithSlash(frame[1])
           THEN /\ SetM(handle_admin_command(r.s, c, frame, username, now'))
                /\ UNCHANGED sent
           ELSE /\ SetM(broadcast_message(r.s, c, "", frame, username))
                /\ sent' = [sent EXCEPT ![c] = Append(@, frame[1])]
    /\ UNCHANGED <<is_running, disk, saves, nconn, conn, task, uname, pending,
                   stop_pc, snapshot, late, allowed, ncalls, ban_hist, removes, codec, lock, ops, mute_local, mgr>>

FramesFor(c) ==
    {<<Payloads[nframes + 1]>>} \cup
    (IF uname[c] \in admin_names THEN CoreCommands ELSE {})

\* a CLIENT_QUIT frame: leave
SessionQuit(c) ==
    /\ task[c] = "loop"
    /\ c \in Keys(clients)
    /\ sock[c] = "open"
    /\ SetM(remove_client(M, c, FALSE))
    /\ task' = [task EXCEPT ![c] = "done"]
    /\ UNCHANGED <<is_running, disk, saves, nconn, conn, uname, pending, nframes,
                   stop_pc, snapshot, late, now, sent, allowed, ncalls, ban_hist, removes, codec, lock, ops, mute_local, mgr>>

\* time.time() moves on
Tick ==
    /\ now < RateMaxTime
    /\ now' = now + 1
    /\ UNCHANGED <<is_running, clients, sock, inbox, msg_db, disk, saves, nconn,
                   conn, task, uname, pending, nframes, stop_pc, snapshot, late,
                   muted_users, db_bans, user_timestamps, sent, allowed, ncalls,
                   ban_db, ban_hist, removes, codec, lock, ops, mute_local, mgr>>

\* the admin logs in first, the others after it
CoreAccept ==
    Accept("127.0.0.1",
           IF nconn = 0 THEN <<"admin", "admin">> ELSE <<"actor-1", "actor1">>)

NextCore ==
    \/ CoreAccept
    \/ \E c \in Socks : HandleClient(c)
    \/ \E c \in Socks : \E frame \in FramesFor(c) : \E dt \in Elapsed :
          SessionFrame(c, frame, dt)

SpecCore == Init /\ [][NextCore]_vars

\* the same session loop with /help as the only command
HelpFramesFor(c) ==
    {<<Payloads[nframes + 1]>>} \cup
    (IF uname[c] \in admin_names THEN {<<"/help">>} ELSE {})

NextHelp ==
    \/ CoreAccept
    \/ \E c \in Socks : HandleClient(c)
    \/ \E c \in Socks : \E frame \in HelpFramesFor(c) : \E dt \in Elapsed :
          SessionFrame(c, frame, dt)

SpecHelp == Init /\ [][NextHelp]_vars

\* the same sessions with logins in any order and with clients that leave
NextSession ==
    \/ \E cred \in ValidCreds : Accept("127.0.0.1", cred)
    \/ \E c \in Socks : HandleClient(c)
    \/ \E c \in Socks : \E frame \in FramesFor(c) : \E dt \in Elapsed :
          SessionFrame(c, frame, dt)
    \/ \E c \in Socks : SessionQuit(c)

SpecSession == Init /\ [][NextSession]_vars

(***************************************************************************)
(* The command engine on its own: the admin's session hands command lines  *)
(* to handle_admin_command while other users join.                         *)
(***************************************************************************)
\* commands whose target is the sender or another admin
SelfTargetCommands ==
    { <<"/kick", "admin">>,
      <<"/ban", "jack">>,
      <<"/unban", "admin">>,
      <<"/mute", "jack", "1s">> }

BanCommands ==
    { <<"/ban", "actor-1">>,
      <<"/ban", "actor-2">>,
      <<"/unban", "actor-1">> }

CmdInputs == SelfTargetCommands \cup BanCommands \cup {<<"/help">>}

\* what a command does to the record of the last ban
NextBanHist(command, s2) ==
    IF s2.db_bans = db_bans THEN ban_hist
    ELSE IF command[2] \in s2.db_bans
    THEN [user |-> command[2], bans |-> db_bans, list |-> ban_db, undone |-> FALSE]
    ELSE IF ban_hist.user = command[2] /\ ~ban_hist.undone
    THEN [ban_hist EXCEPT !.undone = TRUE]
    ELSE NoBan

\* one call of handle_admin_command(admin_socket, command, sender)
AdminCommand(a, command) ==
    /\ task[a] = "loop"
    /\ a \in Keys(clients)
    /\ uname[a] \in admin_names
    /\ nframes < MaxFrames
    /\ nframes' = nframes + 1
    /\ LET s2 == handle_admin_command(M, a, command, uname[a], now)
       IN  /\ SetM(s2)
           /\ ban_hist' = NextBanHist(command, s2)
    /\ UNCHANGED <<is_running, disk, saves, nconn, conn, task, uname, pending,
                   stop_pc, snapshot, late, now, sent, allowed, ncalls, removes, codec, lock, ops, mute_local, mgr>>

NextCmd ==
    \/ CoreAccept
    \/ \E c \in Socks : HandleClient(c)
    \/ \E a \in Socks : \E command \in CmdInputs : AdminCommand(a, command)

SpecCmd == Init /\ [][NextCmd]_vars

(***************************************************************************)
(* Removal on its own: sessions join, and any thread (the session on a     *)
(* quit or a reset, the shutdown sweep) calls remove_client for a          *)
(* connection, more than once.                                             *)
(***************************************************************************)
RemoveClient(c, stopped) ==
    /\ task[c] \in {"loop", "done"}
    /\ removes[c] < MaxRemoves
    /\ removes' = [removes EXCEPT ![c] = @ + 1]
    /\ SetR(remove_client(R, c, stopped))
    /\ task' = [task EXCEPT ![c] = "done"]
    /\ UNCHANGED <<is_running, msg_db, disk, saves, nconn, conn, uname, pending,
                   nframes, stop_pc, snapshot, late, muted_users, db_bans,
                   user_timestamps, now, sent, allowed, ncalls, ban_db, ban_hist,
                   codec, lock, ops, mute_local, mgr>>

NextRemove ==
    \/ CoreAccept
    \/ \E c \in Socks : HandleClient(c)
    \/ \E c \in Socks : \E stopped \in BOOLEAN : RemoveClient(c, stopped)

SpecRemove == Init /\ [][NextRemove]_vars

(***************************************************************************)
(* The mute check on its own: an admin mutes a user, and the user's        *)
(* sessions have check_mute called on their frames as time passes.         *)
(***************************************************************************)
MuteCommand == <<"/mute", "actor-1", "1s">>

\* one call of check_mute(client, username, now) on a frame of an ordinary
\* user, dt seconds after the last
MuteCheck(c, dt) ==
    /\ task[c] = "loop"
    /\ c \in Keys(clients)
    /\ uname[c] \notin admin_names
    /\ ncalls < MaxChecks
    /\ ncalls' = ncalls + 1
    /\ now' = now + dt
    /\ LET m == check_mute(M, c, uname[c], now')
       IN  /\ SetM(m.s)
           /\ allowed' = IF m.allow THEN [allowed EXCEPT ![c] = Append(@, now')]
                         ELSE allowed
    /\ UNCHANGED <<is_running, disk, saves, nconn, conn, task, uname, pending,
                   nframes, stop_pc, snapshot, late, sent, ban_hist, removes, codec, lock, ops, mute_local, mgr>>

NextMute ==
    \/ CoreAccept
    \/ \E c \in Socks : HandleClient(c)
    \/ \E a \in Socks : AdminCommand(a, MuteCommand)
    \/ \E c \in Socks : \E dt \in Elapsed : MuteCheck(c, dt)

SpecMute == Init /\ [][NextMute]_vars

(***************************************************************************)
(* Broadcasts on their own: sessions join, broadcast chat texts and leave. *)
(***************************************************************************)
OrderAccept == Accept("127.0.0.1", <<"actor-1", "actor1">>)

\* one call of broadcast_message(skip_socket=client, message=text, sender=username)
ChatBroadcast(c) ==
    /\ task[c] = "loop"
    /\ c \in Keys(clients)
    /\ nframes < MaxFrames
    /\ nframes' = nframes + 1
    /\ SetM(broadcast_message(M, c, "", <<Payloads[nframes + 1]>>, uname[c]))
    /\ sent' = [sent EXCEPT ![c] = Append(@, Payloads[nframes + 1])]
    /\ UNCHANGED <<is_running, disk, saves, nconn, conn, task, uname, pending,
                   stop_pc, snapshot, late, now, allowed, ncalls, ban_hist, removes, codec, lock, ops, mute_local, mgr>>

NextOrder ==
    \/ OrderAccept
    \/ \E c \in Socks : HandleClient(c)
    \/ \E c \in Socks : ChatBroadcast(c)
    \/ \E c \in Socks : SessionQuit(c)

SpecOrder == Init /\ [][NextOrder]_vars

(***************************************************************************)
(* The line codec: payload_wrapper writes one JSON text and a newline per  *)
(* envelope; Client.read_message takes whatever recv returns.  A JSON text *)
(* is modelled as two halves, so that a read can end inside an envelope.   *)
(***************************************************************************)
NL == [newline |-> TRUE]

Half(env, k) == [newline |-> FALSE, env |-> env, half |-> k]

\* shared.protocol.payload_wrapper: json.dumps(message) + "\n"
payload_wrapper(env) == <<Half(env, 1), Half(env, 2), NL>>

RECURSIVE Wire(_)
\* the bytes sent to a socket: the wrapped envelopes, one after the other
Wire(envs) ==
    IF envs = <<>> THEN <<>> ELSE payload_wrapper(Head(envs)) \o Wire(Tail(envs))

\* the envelopes the second server has sent to socket c
Envelopes(c) == SelectSeq(inbox[c], LAMBDA m : ~m.raw)

RECURSIVE Strip(_)
\* str.strip on a chunk: newlines at either end go
Strip(chunk) ==
    IF chunk = <<>> THEN <<>>
    ELSE IF Head(chunk) = NL THEN Strip(Tail(chunk))
    ELSE IF chunk[Len(chunk)] = NL THEN Strip(SubSeq(chunk, 1, Len(chunk) - 1))
    ELSE chunk

RECURSIVE Split(_, _)
\* str.split("\n"): the pieces between newlines; cur is the piece being read
Split(chunk, cur) ==
    IF chunk = <<>> THEN <<cur>>
    ELSE IF Head(chunk) = NL THEN <<cur>> \o Split(Tail(chunk), <<>>)
    ELSE Split(Tail(chunk), Append(cur, Head(chunk)))

\* json.loads succeeds on a whole JSON text only
IsJson(piece) ==
    /\ Len(piece) = 2
    /\ piece[1].half = 1
    /\ piece[2].half = 2
    /\ piece[1].env = piece[2].env

RECURSIVE Dispatch(_, _)
\* the for loop of read_message: empty pieces are skipped; parse_response
\* returns None on a JSONDecodeError and the four-name unpacking raises
Dispatch(pieces, r) ==
    IF pieces = <<>> \/ ~r.running THEN r
    ELSE IF Head(pieces) = <<>> THEN Dispatch(Tail(pieces), r)
    ELSE IF IsJson(Head(pieces))
    THEN Dispatch(Tail(pieces), [r EXCEPT !.out = Append(@, Head(pieces)[1].env)])
    ELSE [r EXCEPT !.running = FALSE]

\* Client.read_message, one recv that returns n pieces of the stream
ClientRead(c, n) ==
    /\ codec[c].running
    /\ codec[c].pos + n <= Len(Wire(Envelopes(c)))
    /\ LET chunk == SubSeq(Wire(Envelopes(c)), codec[c].pos + 1, codec[c].pos + n)
       IN  codec' = [codec EXCEPT ![c] =
                        Dispatch(Split(Strip(chunk), <<>>), [@ EXCEPT !.pos = @ + n])]
    /\ UNCHANGED <<is_running, clients, sock, inbox, msg_db, disk, saves, nconn, conn,
                   task, uname, pending, nframes, stop_pc, snapshot, late,
                   muted_users, db_bans, user_timestamps, now, sent, allowed, ncalls,
                   ban_db, ban_hist, removes, lock, ops, mute_local, mgr>>

NextCodec ==
    \/ OrderAccept
    \/ \E c \in Socks : HandleClient(c)
    \/ \E c \in Socks : ChatBroadcast(c)
    \/ \E c \in Socks : \E n \in 1..MaxRead : ClientRead(c, n)

SpecCodec == Init /\ [][NextCodec]_vars

(***************************************************************************)
(* The rate limiter on its own: one admitted connection, calls at          *)
(* non-decreasing times.                                                   *)
(***************************************************************************)
RateAccept ==
    /\ nconn = 0
    /\ Accept("127.0.0.1", <<"actor-1", "actor1">>)

\* one call of check_rate_limit(client, time.time())
RateCheck(c) ==
    /\ c \in Keys(clients)
    /\ ncalls < MaxCalls
    /\ ncalls' = ncalls + 1
    /\ LET r == check_rate_limit(M, c, now)
       IN  /\ SetM(r.s)
           /\ allowed' = IF r.allow THEN [allowed EXCEPT ![c] = Append(@, now)]
                         ELSE allowed
    /\ UNCHANGED <<is_running, disk, saves, nconn, conn, task, uname, pending,
                   nframes, stop_pc, snapshot, late, now, sent, ban_hist, removes, codec, lock, ops, mute_local, mgr>>

NextRate ==
    \/ RateAccept
    \/ \E c \in Socks : HandleClient(c)
    \/ \E c \in Socks : RateCheck(c)
    \/ Tick

SpecRate == Init /\ [][NextRate]_vars

(***************************************************************************)
(* Sends that fail: a peer goes away (its end is reset) while its socket   *)
(* is still in the registry; from then on send and sendall on that socket  *)
(* raise.  Sessions join and fan chat texts out, through Server.broadcast  *)
(* and through Broadcaster.broadcast_message.                              *)
(***************************************************************************)
\* the peer of socket c resets the connection
PeerReset(c) ==
    /\ sock[c] = "open"
    /\ sock' = [sock EXCEPT ![c] = "broken"]
    /\ UNCHANGED <<is_running, clients, inbox, msg_db, disk, saves, nconn, conn,
                   task, uname, pending, nframes, stop_pc, snapshot, late>>
    /\ UNCHANGED modVars

\* one call of broadcast_message(skip_socket, "", text, sender) by session c;
\* skip is the session's own socket or None (0)
FanOut(c, skip) ==
    /\ task[c] = "loop"
    /\ c \in Keys(clients)
    /\ nframes < MaxFanOuts
    /\ nframes' = nframes + 1
    /\ SetM(broadcast_message(M, skip, "", <<Payloads[nframes + 1]>>, uname[c]))
    /\ sent' = [sent EXCEPT ![c] = Append(@, Payloads[nframes + 1])]
    /\ UNCHANGED <<is_running, disk, saves, nconn, conn, task, uname, pending,
                   stop_pc, snapshot, late, now, allowed, ncalls, ban_hist, removes, codec, lock, ops, mute_local, mgr>>

\* a peer goes away while a fan-out is still to come
FailReset(c) == nframes < MaxFanOuts /\ PeerReset(c)

\* a session of the first server goes to read a frame, and reads a chat frame
FailLoop(c) == nframes < MaxFanOuts /\ LoopCheck(c)

FailChat(c) == nframes < MaxFanOuts /\ ProcessChat(c)

NextFail ==
    \/ CoreAccept
    \/ \E c \in Socks : HandleClient(c)
    \/ \E c \in Socks : FailReset(c)
    \/ \E c \in Socks : \E skip \in {0, c} : FanOut(c, skip)
    \/ \E c \in Socks : FailLoop(c)
    \/ \E c \in Socks : FailChat(c)
    \/ \E c \in Socks : AppendMessage(c)

SpecFail == Init /\ [][NextFail]_vars

(***************************************************************************)
(* The locks.  Here a with self.lock block is not one step: a thread is a  *)
(* list of primitive steps still to run (acquire, send, pop, ...), each    *)
(* call of the code puts its steps at the front of the list, and threads   *)
(* interleave step by step.  Thread 0 is the main thread (acceptor,        *)
(* stop_connection); thread c is the pool thread of socket c.              *)
(***************************************************************************)
Threads == 0..MaxConn

NoMsg == Raw(<<>>)

Step(op, c, m) == [op |-> op, c |-> c, m |-> m]

\* with self.lock: / with self.server.lock:
Acquire == Step("acquire", 0, NoMsg)

Release == Step("release", 0, NoMsg)

\* client_socket.send / client.sendall: the blocking write
Send(c, m) == Step("send", c, m)

\* a lock that its owner cannot take again (threading.Lock)
CanAcquirePlain(lk, t) == lk.depth = 0

\* self.lock = threading.RLock(): free, or held by the thread that asks
CanAcquire(lk, t) == lk.depth = 0 \/ lk.owner = t

\* Server.handle_message
handle_message_steps(c, m) == <<Send(c, m)>>

\* Server.broadcast
broadcast_steps(m) == <<Acquire, Step("for_clients", 0, m), Release>>

\* Server.broadcast_active_users
broadcast_active_users_steps == <<Acquire, Step("user_list", 0, NoMsg), Release>>

\* Server.remove_client
remove_client_steps(c, stopped) ==
    <<Acquire, Step(IF stopped THEN "pop_stopped" ELSE "pop", c, NoMsg), Release>>

\* Server.process_new_connection
process_new_connection_steps(c, username) ==
    handle_message_steps(c, Raw(<<"AUTH_SUCCESS">>))
        \o broadcast_steps(Raw(<<username, "has joined the chat!">>))
        \o <<Step("submit", c, NoMsg)>>

\* Server.handle_client, up to the loop
handle_client_steps(c) ==
    <<Acquire, Step("insert", c, NoMsg)>> \o broadcast_active_users_steps \o <<Release>>

\* Server.process_client_message on a chat frame p
process_client_message_steps(p) ==
    broadcast_steps(Raw(p))
        \o <<Step("append", 0, [user |-> p[1], message |-> p[3], timestamp |-> p[2]])>>

\* Server.stop_connection
stop_connection_steps ==
    <<Step("stop_flag", 0, NoMsg), Step("save", 0, NoMsg), Step("keys", 0, NoMsg)>>

\* Broadcaster.send_msg_to
send_msg_to_steps(c, env) == <<Acquire, Send(c, env), Release>>

\* Broadcaster.broadcast_message
broadcast_message_steps(skip_socket, env) ==
    <<Acquire, Step("for_others", skip_socket, env)>>
        \o (IF env.flag = "" /\ env.sender # "" THEN <<Step("append", 0, env)>> ELSE <<>>)
        \o <<Release>>

RECURSIVE Flatten(_)
Flatten(lists) == IF lists = <<>> THEN <<>> ELSE Head(lists) \o Flatten(Tail(lists))

\* the shared state the steps work on
L == [clients |-> clients, sock |-> sock, inbox |-> inbox, msg_db |-> msg_db,
      disk |-> disk, saves |-> saves, is_running |-> is_running, task |-> task]

SetL(s) ==
    /\ clients' = s.clients
    /\ sock' = s.sock
    /\ inbox' = s.inbox
    /\ msg_db' = s.msg_db
    /\ disk' = s.disk
    /\ saves' = s.saves
    /\ is_running' = s.is_running
    /\ task' = s.task

\* what one step does to the shared state
Effect(s, o) ==
    CASE o.op = "send" -> handle_message(s, o.c, o.m)
      [] o.op \in {"pop", "pop_stopped"} -> [s EXCEPT !.clients = Pop(@, o.c)]
      [] o.op = "close" -> [s EXCEPT !.sock[o.c] = "closed"]
      [] o.op = "insert" -> [s EXCEPT !.clients = Append(@, <<o.c, uname[o.c]>>)]
      [] o.op = "append" -> [s EXCEPT !.msg_db = Append(@, o.m)]
      [] o.op = "save" -> [s EXCEPT !.disk = s.msg_db, !.saves = @ + 1]
      [] o.op = "stop_flag" -> [s EXCEPT !.is_running = FALSE]
      [] o.op = "submit" -> [s EXCEPT !.task[o.c] = "queued"]
      [] OTHER -> s

\* the steps one step puts in front of the thread's list: the body of a for
\* loop over the registry as it is now, or the rest of remove_client
Expand(s, o) ==
    CASE o.op = "for_clients" ->
            [i \in DOMAIN s.clients |-> Send(s.clients[i][1], o.m)]
      [] o.op = "user_list" ->
            [i \in DOMAIN s.clients |->
                Send(s.clients[i][1], Raw(<<"ACTIVE_USERS">> \o Values(s.clients)))]
      [] o.op = "for_others" ->
            Flatten([i \in DOMAIN s.clients |->
                        IF s.clients[i][1] # o.c
                        THEN send_msg_to_steps(s.clients[i][1], o.m) ELSE <<>>])
      [] o.op = "pop" ->
            IF o.c \notin Keys(s.clients) THEN <<>>
            ELSE <<Step("close", o.c, NoMsg)>>
                     \o broadcast_steps(Raw(<<NameOf(s.clients, o.c), "has left the chat!">>))
                     \o broadcast_active_users_steps
      [] o.op = "pop_stopped" ->
            IF o.c \notin Keys(s.clients) THEN <<>>
            ELSE <<Send(o.c, Raw(<<"SERVER_SHUTDOWN">>)), Step("close", o.c, NoMsg)>>
      [] o.op = "keys" ->
            Flatten([i \in DOMAIN s.clients |-> remove_client_steps(s.clients[i][1], TRUE)])
      [] OTHER -> <<>>

\* the lock after a step of thread t
LockAfter(lk, o, t) ==
    CASE o.op = "acquire" -> [owner |-> t, depth |-> lk.depth + 1]
      [] o.op = "release" -> [owner |-> IF lk.depth = 1 THEN 0 ELSE lk.owner,
                              depth |-> lk.depth - 1]
      [] OTHER -> lk

\* thread t runs its next step; an acquire waits for the lock
Run(t) ==
    /\ ops[t] # <<>>
    /\ LET o == Head(ops[t])
       IN  /\ o.op = "acquire" => CanAcquire(lock, t)
           /\ lock' = LockAfter(lock, o, t)
           /\ ops' = [ops EXCEPT ![t] = Expand(L, o) \o Tail(ops[t])]
           /\ SetL(Effect(L, o))
    /\ UNCHANGED <<nconn, conn, uname, pending, nframes, stop_pc, snapshot, late,
                   muted_users, db_bans, user_timestamps, now, sent, allowed, ncalls,
                   ban_db, ban_hist, removes, codec, mute_local, mgr>>

\* what a thread start leaves alone
Started(t, steps) ==
    /\ ops[t] = <<>>
    /\ ops' = [ops EXCEPT ![t] = steps]
    /\ UNCHANGED <<is_running, clients, inbox, msg_db, disk, saves, conn, pending,
                   stop_pc, snapshot, late, lock>>
    /\ UNCHANGED <<muted_users, db_bans, user_timestamps, now, sent, allowed, ncalls,
                   ban_db, ban_hist, removes, codec, mute_local, mgr>>

\* the acceptor admits a connection: process_new_connection
LockAccept ==
    /\ is_running
    /\ nconn < MaxConn
    /\ LET c == nconn + 1
           username == IF c = 1 THEN "admin" ELSE "actor-1"
       IN  /\ nconn' = c
           /\ sock' = [sock EXCEPT ![c] = "open"]
           /\ uname' = [uname EXCEPT ![c] = username]
           /\ Started(0, process_new_connection_steps(c, username))
    /\ UNCHANGED <<task, nframes>>

\* a pool thread takes a submitted session: handle_client
LockHandleClient(c) ==
    /\ task[c] = "queued"
    /\ task' = [task EXCEPT ![c] = "loop"]
    /\ Started(c, handle_client_steps(c))
    /\ UNCHANGED <<sock, nconn, uname, nframes>>

\* the session reads a chat frame: process_client_message
LockChat(c) ==
    /\ task[c] = "loop"
    /\ is_running
    /\ nframes < MaxFrames
    /\ nframes' = nframes + 1
    /\ Started(c, process_client_message_steps(
                      <<uname[c], DefaultTimestamp, Payloads[nframes + 1]>>))
    /\ UNCHANGED <<sock, nconn, uname, task>>

\* the session reads CLIENT_QUIT: remove_client, and the loop ends
LockQuit(c) ==
    /\ task[c] = "loop"
    /\ is_running
    /\ task' = [task EXCEPT ![c] = "done"]
    /\ Started(c, remove_client_steps(c, FALSE))
    /\ UNCHANGED <<sock, nconn, uname, nframes>>

\* a session of the second server fans a chat text out: broadcast_message
LockBroadcastMessage(c) ==
    /\ task[c] = "loop"
    /\ is_running
    /\ nframes < MaxFrames
    /\ nframes' = nframes + 1
    /\ Started(c, broadcast_message_steps(
                      c, build_response("", <<Payloads[nframes + 1]>>, uname[c])))
    /\ UNCHANGED <<sock, nconn, uname, task>>

\* SIGINT: stop_connection on the main thread
LockStop ==
    /\ is_running
    /\ Started(0, stop_connection_steps)
    /\ UNCHANGED <<sock, nconn, uname, task, nframes>>

NextLock ==
    \/ LockAccept
    \/ \E c \in Socks : LockHandleClient(c)
    \/ \E c \in Socks : LockChat(c)
    \/ \E c \in Socks : LockQuit(c)
    \/ \E c \in Socks : LockBroadcastMessage(c)
    \/ LockStop
    \/ \E t \in Threads : Run(t)

SpecLock == Init /\ [][NextLock]_vars

\* the same threads with sessions that join and leave, the first member of
\* the registry fanning a few chat texts out with broadcast_message
ReentryBroadcast(c) ==
    /\ nframes < MaxFanOuts
    /\ clients # <<>>
    /\ c = clients[1][1]
    /\ LockBroadcastMessage(c)

NextReentry ==
    \/ LockAccept
    \/ \E c \in Socks : LockHandleClient(c)
    \/ \E c \in Socks : ReentryBroadcast(c)
    \/ \E c \in Socks : LockQuit(c)
    \/ LockStop
    \/ \E t \in Threads : Run(t)

SpecReentry == Init /\ [][NextReentry]_vars

(***************************************************************************)
(* /kick on its own: the admin kicks a user that is connected, or one that *)
(* is not, while users join and leave.                                     *)
(***************************************************************************)
KickCommands == { <<"/kick", "actor-1">>, <<"/kick", "actor-2">> }

NextKick ==
    \/ CoreAccept
    \/ \E c \in Socks : HandleClient(c)
    \/ \E a \in Socks : \E command \in KickCommands : AdminCommand(a, command)
    \/ \E c \in Socks : SessionQuit(c)

SpecKick == Init /\ [][NextKick]_vars

(***************************************************************************)
(* /mute on its own: the admin mutes a connected user with duration words  *)
(* of every shape, and with none, while users join.                        *)
(***************************************************************************)
DurationCommands ==
    { <<"/mute", "actor-1", "2s">>,
      <<"/mute", "actor-1", "1s">>,
      <<"/mute", "actor-1", "1m">>,
      <<"/mute", "actor-1", "2S">>,
      <<"/mute", "actor-1", "s">>,
      <<"/mute", "actor-1", "xs">>,
      <<"/mute", "actor-1", "2">>,
      <<"/mute", "actor-1">> }

NextDuration ==
    \/ CoreAccept
    \/ \E c \in Socks : HandleClient(c)
    \/ \E a \in Socks : \E command \in DurationCommands : AdminCommand(a, command)

SpecDuration == Init /\ [][NextDuration]_vars

(***************************************************************************)
(* The acceptor when the credential read fails: the peer resets the        *)
(* connection during recv, sends bytes that are no UTF-8, or sends a       *)
(* string with two "::" in it.  Sessions of users already admitted run on. *)
(***************************************************************************)
\* what the new connection does instead of sending "username::password"
BadReads ==
    { [kind |-> "reset", parts |-> <<>>],
      [kind |-> "bytes", parts |-> <<>>],
      [kind |-> "text", parts |-> <<"actor-1", "actor1", "x">>] }

\* the exception lines 76-77 raise on such a read: recv raises on a reset,
\* decode on bytes that are no UTF-8, and the two-name unpacking of
\* credentials.split("::") in verify_user on three parts
credential_error(read) ==
    CASE read.kind = "reset" -> "ConnectionResetError"
      [] read.kind = "bytes" -> "UnicodeDecodeError"
      [] read.kind = "text" /\ Len(read.parts) > 2 -> "ValueError"
      [] OTHER -> None

\* the exceptions that are OSError (socket.timeout is caught before it)
OSErrors == {"ConnectionResetError", "BrokenPipeError"}

\* Server.accept_and_handle_connection, one pass in which reading or
\* verifying the credentials raises.  An OSError is caught by the method
\* (is_running = False; stop_connection()); anything else leaves the accept
\* loop and the method, and start_connection unwinds.
AcceptFailure(addr, read) ==
    /\ is_running
    /\ stop_pc = "idle"
    /\ nconn < MaxConn
    /\ is_authorized(addr)
    /\ credential_error(read) # None
    /\ LET c == nconn + 1
       IN  /\ nconn' = c
           /\ conn' = [conn EXCEPT ![c] =
                  [addr |-> addr, cred |-> read.parts, banned |-> FALSE]]
           /\ sock' = [sock EXCEPT ![c] =
                  IF read.kind = "reset" THEN "broken" ELSE "open"]
    /\ IF credential_error(read) \in OSErrors
       THEN /\ is_running' = FALSE
            /\ stop_pc' = "save"
       ELSE /\ stop_pc' = "unwinding"
            /\ UNCHANGED is_running
    /\ UNCHANGED <<clients, inbox, msg_db, disk, saves, task, uname, pending,
                   nframes, snapshot, late>>
    /\ UNCHANGED modVars

\* the exception leaves the with-block of the pool, which waits for every
\* session to end, and reaches run_server.py: server.stop_connection()
AcceptUnwound ==
    /\ stop_pc = "unwinding"
    /\ \A c \in Socks : task[c] \in {"none", "done"}
    /\ is_running' = FALSE
    /\ stop_pc' = "save"
    /\ UNCHANGED <<clients, sock, inbox, msg_db, disk, saves, nconn, conn, task,
                   uname, pending, nframes, snapshot, late>>
    /\ UNCHANGED modVars

AcceptCreds == { <<"garbage">>, <<"actor-1", "actor1">>, <<"actor-1", "wrong">> }

NextAccept ==
    \/ \E cred \in AcceptCreds : Accept("127.0.0.1", cred)
    \/ \E addr \in Addresses, read \in BadReads : AcceptFailure(addr, read)
    \/ AcceptUnwound
    \/ \E c \in Socks : HandleClient(c)
    \/ \E c \in Socks : LoopCheck(c)
    \/ \E c \in Socks, e \in {"timeout", "ConnectionResetError"} : ProcessError(c, e)
    \/ StopSave
    \/ StopSnapshot
    \/ StopSweep

SpecAccept == Init /\ [][NextAccept]_vars

(***************************************************************************)
(* check_mute while the admin mutes.  No method of Broadcaster or Commands *)
(* takes a lock around the mute table, so the session thread of a user can *)
(* be between the table read of line 71 and the rest of check_mute when    *)
(* the admin's session thread runs admin_action_mute.  A session's locals: *)
(* t is the now argument, found and mute_info are what the read returned,  *)
(* same tells whether the table still holds the dict object that was read. *)
(***************************************************************************)
\* the admin, then one user
RaceAccept ==
    /\ nconn < 2
    /\ CoreAccept

\* Broadcaster.check_mute, line 71: mute_info = self.server.muted_users.get(username),
\* on a frame read dt seconds after the last
MuteRead(c, dt) ==
    /\ task[c] = "loop"
    /\ c \in Keys(clients)
    /\ uname[c] \notin admin_names
    /\ ~mute_local[c].active
    /\ ncalls < MaxChecks
    /\ ncalls' = ncalls + 1
    /\ now' = now + dt
    /\ mute_local' = [mute_local EXCEPT ![c] =
           IF uname[c] \in DOMAIN muted_users
           THEN [active |-> TRUE, t |-> now', found |-> TRUE,
                 mute_info |-> muted_users[uname[c]], same |-> TRUE]
           ELSE [NoLocal EXCEPT !.active = TRUE, !.t = now']]
    /\ UNCHANGED <<is_running, clients, sock, inbox, msg_db, disk, saves, nconn,
                   conn, task, uname, pending, nframes, stop_pc, snapshot, late,
                   muted_users, db_bans, user_timestamps, sent, allowed,
                   ban_db, ban_hist, removes, codec, lock, ops, mgr>>

\* Broadcaster.check_mute, lines 73-91, on the locals of line 71:
\* [allow, raised, s].  The warned flag is written to the dict object that
\* was read; del removes whatever entry the table holds under the name now,
\* and raises KeyError when it holds none.
check_mute_rest(s, client, username, local) ==
    IF ~local.found THEN [allow |-> TRUE, raised |-> FALSE, s |-> s]
    ELSE LET unmute_time == local.mute_info.until
         IN  IF local.t < unmute_time
             THEN [allow |-> FALSE, raised |-> FALSE,
                   s |-> IF ~local.mute_info.warned
                         THEN LET s1 == send_msg_to(s, client, ADMIN_MSG,
                                            <<"You are muted for",
                                              ToString(unmute_time - local.t),
                                              "more second(s).">>, "")
                              IN  IF local.same
                                  THEN [s1 EXCEPT !.muted_users[username].warned = TRUE]
                                  ELSE s1
                         ELSE s]
             ELSE IF username \in DOMAIN s.muted_users
             THEN [allow |-> TRUE, raised |-> FALSE,
                   s |-> [s EXCEPT !.muted_users = Del(@, username)]]
             ELSE [allow |-> FALSE, raised |-> TRUE, s |-> s]

\* the session runs the rest of its check_mute call
MuteFinish(c) ==
    /\ mute_local[c].active
    /\ LET m == check_mute_rest(M, c, uname[c], mute_local[c])
       IN  /\ SetM(m.s)
           /\ allowed' = IF m.allow THEN [allowed EXCEPT ![c] = Append(@, mute_local[c].t)]
                         ELSE allowed
    /\ mute_local' = [mute_local EXCEPT ![c] = NoLocal]
    /\ UNCHANGED <<is_running, disk, saves, nconn, conn, task, uname, pending,
                   nframes, stop_pc, snapshot, late, now, sent, ncalls, ban_hist,
                   removes, codec, lock, ops, mgr>>

\* one call of handle_admin_command(admin_socket, command, sender) on the
\* admin's thread; when it installs a mute (the target is then sent
\* ADMIN_MUTE), the dict object a session read before is no longer in the table
RaceMute(a, command) ==
    /\ task[a] = "loop"
    /\ a \in Keys(clients)
    /\ uname[a] \in admin_names
    /\ nframes < MaxFrames
    /\ nframes' = nframes + 1
    /\ LET s2 == handle_admin_command(M, a, command, uname[a], now)
           k == find_client_by_username(M, command[2])
       IN  /\ SetM(s2)
           /\ mute_local' =
                 [c \in Socks |->
                     IF k # 0 /\ s2.inbox[k] # inbox[k] /\ uname[c] = command[2]
                     THEN [mute_local[c] EXCEPT !.same = FALSE]
                     ELSE mute_local[c]]
    /\ UNCHANGED <<is_running, disk, saves, nconn, conn, task, uname, pending,
                   stop_pc, snapshot, late, now, sent, allowed, ncalls, ban_hist,
                   removes, codec, lock, ops, mgr>>

NextRace ==
    \/ RaceAccept
    \/ \E c \in Socks : HandleClient(c)
    \/ \E a \in Socks : RaceMute(a, MuteCommand)
    \/ \E c \in Socks : \E dt \in Elapsed : MuteRead(c, dt)
    \/ \E c \in Socks : MuteFinish(c)

SpecRace == Init /\ [][NextRace]_vars

(***************************************************************************)
(* ClientManager (src/server/manager.py).  mgr holds the two maps by their *)
(* key sets, the plain lock, the pool, the exit events that are set, and   *)
(* where each caller is: the thread that registers client c, the pool      *)
(* thread that runs c's wrapped_handler, and the thread in shutdown_all.   *)
(***************************************************************************)
\* a step of the manager leaves the servers alone
ManagerStep(m) ==
    /\ mgr' = m
    /\ UNCHANGED <<is_running, clients, sock, inbox, msg_db, disk, saves, nconn,
                   conn, task, uname, pending, nframes, stop_pc, snapshot, late,
                   muted_users, db_bans, user_timestamps, now, sent, allowed,
                   ncalls, ban_db, ban_hist, removes, codec, lock, ops, mute_local>>

\* register, line 24: with self.lock
RegisterBegin(c) ==
    /\ mgr.register[c] = "idle"
    /\ mgr.lock = "free"
    /\ ManagerStep([mgr EXCEPT !.lock = "held", !.register[c] = "locked"])

\* register, line 25: self.exit_flags[client] = exit_event
RegisterFlag(c) ==
    /\ mgr.register[c] = "locked"
    /\ ManagerStep([mgr EXCEPT !.exit_flags = @ \cup {c}, !.register[c] = "flagged"])

\* register, line 26, right-hand side: self.executor.submit(wrapped_handler).
\* A pool that was shut down raises RuntimeError, and the with block gives
\* the lock back on the way out.
RegisterSubmit(c) ==
    /\ mgr.register[c] = "flagged"
    /\ IF mgr.executor = "up"
       THEN ManagerStep([mgr EXCEPT !.handler[c] = "running",
                                    !.register[c] = "submitted"])
       ELSE ManagerStep([mgr EXCEPT !.lock = "free", !.register[c] = "raised"])

\* register, line 26, the assignment: self.futures[client] = <the future>
RegisterStore(c) ==
    /\ mgr.register[c] = "submitted"
    /\ ManagerStep([mgr EXCEPT !.futures = @ \cup {c}, !.register[c] = "stored"])

\* register: the with block ends
RegisterEnd(c) ==
    /\ mgr.register[c] = "stored"
    /\ ManagerStep([mgr EXCEPT !.lock = "free", !.register[c] = "done"])

\* wrapped_handler, line 20: handler(exit_event, *args) returns
HandlerReturn(c) ==
    /\ mgr.handler[c] = "running"
    /\ ManagerStep([mgr EXCEPT !.handler[c] = "returned"])

\* cleanup, line 46: with self.lock
CleanupBegin(c) ==
    /\ mgr.handler[c] = "returned"
    /\ mgr.lock = "free"
    /\ ManagerStep([mgr EXCEPT !.lock = "held", !.handler[c] = "cleanup"])

\* cleanup, lines 47-48: the two pops
CleanupPop(c) ==
    /\ mgr.handler[c] = "cleanup"
    /\ ManagerStep([mgr EXCEPT !.exit_flags = @ \ {c}, !.futures = @ \ {c},
                               !.handler[c] = "popped"])

\* cleanup: the with block ends
CleanupEnd(c) ==
    /\ mgr.handler[c] = "popped"
    /\ ManagerStep([mgr EXCEPT !.lock = "free", !.handler[c] = "cleaned"])

\* shutdown(client), the whole locked block, for a client that is tracked
Shutdown(c) ==
    /\ mgr.lock = "free"
    /\ c \in mgr.exit_flags
    /\ c \notin mgr.events
    /\ ManagerStep([mgr EXCEPT !.events = @ \cup {c}])

\* shutdown_all, line 36: with self.lock
ShutdownAllBegin ==
    /\ mgr.shutdown_all = "idle"
    /\ mgr.lock = "free"
    /\ ManagerStep([mgr EXCEPT !.lock = "held", !.shutdown_all = "locked"])

\* shutdown_all, lines 37-40: set every event, clear both maps
ShutdownAllClear ==
    /\ mgr.shutdown_all = "locked"
    /\ ManagerStep([mgr EXCEPT !.events = @ \cup mgr.exit_flags,
                               !.exit_flags = {}, !.futures = {},
                               !.shutdown_all = "cleared"])

\* shutdown_all: the with block ends
ShutdownAllEnd ==
    /\ mgr.shutdown_all = "cleared"
    /\ ManagerStep([mgr EXCEPT !.lock = "free", !.shutdown_all = "released"])

\* shutdown_all, line 42: self.executor.shutdown(wait=True) marks the pool ...
ExecutorShutdown ==
    /\ mgr.shutdown_all = "released"
    /\ ManagerStep([mgr EXCEPT !.executor = "down", !.shutdown_all = "joining"])

\* ... and returns when every pool thread has ended
ExecutorJoined ==
    /\ mgr.shutdown_all = "joining"
    /\ \A c \in Socks : mgr.handler[c] \in {"none", "cleaned"}
    /\ ManagerStep([mgr EXCEPT !.shutdown_all = "done"])

NextManager ==
    \/ \E c \in Socks : RegisterBegin(c)
    \/ \E c \in Socks : RegisterFlag(c)
    \/ \E c \in Socks : RegisterSubmit(c)
    \/ \E c \in Socks : RegisterStore(c)
    \/ \E c \in Socks : RegisterEnd(c)
    \/ \E c \in Socks : HandlerReturn(c)
    \/ \E c \in Socks : CleanupBegin(c)
    \/ \E c \in Socks : CleanupPop(c)
    \/ \E c \in Socks : CleanupEnd(c)
    \/ \E c \in Socks : Shutdown(c)
    \/ ShutdownAllBegin
    \/ ShutdownAllClear
    \/ ShutdownAllEnd
    \/ ExecutorShutdown
    \/ ExecutorJoined

SpecManager == Init /\ [][NextManager]_vars

(***************************************************************************)
(* The first server: registry and session lifecycle (C1-C3, C9, C10).      *)
(***************************************************************************)
Has(q, m) == \E i \in DOMAIN q : q[i] = m

\* C1: at most one live connection in the registry is bound to any username
\* (a second login under a bound username is rejected, never admitted).
C1_OneConnectionPerUser ==
    \A i, j \in DOMAIN clients : clients[i][2] = clients[j][2] => i = j

\* C2: every accepted connection is either rejected and closed without being
\* admitted, or admitted and removed with its socket closed by the time its
\* session task has ended, whichever way the task ended.  (While
\* stop_connection is sweeping, the sweep may still be on its way to the
\* entry; those states are left out.)
C2_SessionEndRemoves ==
    \A c \in Socks :
        /\ (sock[c] # "unused" /\ task[c] = "none")
              => (sock[c] = "closed" /\ c \notin Keys(clients))
        /\ (task[c] = "done" /\ stop_pc \in {"idle", "done"})
              => (sock[c] = "closed" /\ c \notin Keys(clients))

\* C3: no connection admitted to the registry after stop began is in the
\* registry when stop_connection has completed.
C3_NoLateAdmission ==
    stop_pc = "done" => \A c \in late : c \notin Keys(clients)

\* the failure flag the specification orders for a credential string
ExpectedAuthFlag(c) ==
    LET cred == conn[c].cred
    IN  IF Len(cred) # 2 THEN "AUTH_INVALID"
        ELSE IF conn[c].banned THEN "AUTH_BAN"
        ELSE IF cred[1] \notin DOMAIN user_db THEN "AUTH_DENIED"
        ELSE IF ~verify_password(cred[2], user_db[cred[1]].password) THEN "AUTH_DENIED"
        ELSE "AUTH_OK"

\* a success notice, under either server's name for it
IsAuthOk(m) == m.flag = "AUTH_OK" \/ m = Raw(<<"AUTH_SUCCESS">>)

IsUserListWith(m, u) ==
    /\ \/ m.flag = "USER_LIST_UPDATE"
       \/ (m.raw /\ m.message # <<>> /\ m.message[1] = "ACTIVE_USERS")
    /\ u \in Range(m.message)

IsJoinOf(m, u) == m.message = <<u, "has joined the chat!">>

Removed(c) == uname[c] # None /\ task[c] # "queued" /\ c \notin Keys(clients)

\* C4: after remove(c) for a connection of user u the socket is closed, c is in
\* neither the registry nor the rate-limit table and u is not in the mute
\* table; every key of the rate-limit table is in the registry.
C4_RemoveClearsTables ==
    /\ \A c \in DOMAIN user_timestamps : c \in Keys(clients)
    /\ \A c \in Socks :
          Removed(c) =>
              /\ sock[c] = "closed"
              /\ c \notin DOMAIN user_timestamps
              /\ uname[c] \notin DOMAIN muted_users

\* the envelopes a step adds to what a peer was sent
NewIn(r) == SubSeq(inbox'[r], Len(inbox[r]) + 1, Len(inbox'[r]))

NewLog == SubSeq(msg_db', Len(msg_db) + 1, Len(msg_db'))

IsChatOf(m, u) == ~m.raw /\ m.flag = "" /\ m.sender = u

AllowedIn(c, w) ==
    {i \in DOMAIN allowed[c] : w <= allowed[c][i] /\ allowed[c][i] <= w + interval}

\* C6: for one connection and any window of interval seconds,
\* check_rate_limit allows at most max_messages frames with timestamps in the
\* window, whatever calls were allowed or denied before.
C6_RateWindow ==
    \A c \in Socks : \A w \in 0..now : Cardinality(AllowedIn(c, w)) <= max_messages

\* a full window: frames were denied, and after the window moved on a further
\* frame was allowed
C6_Witness ==
    \E c \in Socks : Len(allowed[c]) > max_messages /\ ncalls > Len(allowed[c])

\* the chat texts a peer was sent, in the order they were sent to it
ChatTexts(r) ==
    LET chats == SelectSeq(inbox[r], LAMBDA m : ~m.raw /\ m.flag = "" /\ m.sender # "")
    IN  [i \in DOMAIN chats |-> chats[i].message[1]]

Index(sq, x) == CHOOSE k \in DOMAIN sq : sq[k] = x

SessionsEnded == \A c \in Socks : task[c] \in {"none", "done"}

C15_BanUnbanRestores ==
    ban_hist.undone => (db_bans = ban_hist.bans /\ ban_db = ban_hist.list)

\* a user was banned and then unbanned
C15_Witness == ban_hist.undone /\ ban_hist.user \notin db_bans


(***************************************************************************)
(* Removal (C16).                                                          *)
(***************************************************************************)
IsLeaveOf(m, u) == m = Raw(<<u, "has left the chat!">>)

LeavesSeen(r, u) == Cardinality({i \in DOMAIN inbox[r] : IsLeaveOf(inbox[r][i], u)})

\* C16: a second remove_client of a connection changes nothing, closes
\* nothing and sends nothing; a peer sees at most one "has left" per
\* connection.
C16_RemoveIdempotent ==
    /\ [](\A r \in Socks : \A u \in Usernames :
            LeavesSeen(r, u) <= Cardinality({c \in Socks : uname[c] = u /\ removes[c] > 0}))
    /\ [][\A c \in Socks :
            (removes[c] > 0 /\ removes'[c] > removes[c])
                => UNCHANGED <<clients, sock, inbox>>]_vars

\* a connection was removed twice while a peer was there to be told
C16_Witness ==
    \E c \in Socks : \E r \in Socks \ {c} :
        /\ removes[c] >= 2
        /\ LeavesSeen(r, uname[c]) = 1


\* a /help frame of an admin session goes through the session loop
HelpStep(a) ==
    /\ uname[a] \in admin_names
    /\ \E dt \in Elapsed : SessionFrame(a, <<"/help">>, dt)

\* what a /help frame leaves alone, and the one envelope it sends
HelpEffect(a) ==
    /\ clients' = clients
    /\ sock' = sock
    /\ db_bans' = db_bans
    /\ ban_db' = ban_db
    /\ muted_users' = muted_users
    /\ msg_db' = msg_db
    /\ \A r \in Socks \ {a} : inbox'[r] = inbox[r]
    /\ inbox'[a] = Append(inbox[a], build_response(ADMIN_MSG, <<"Admin Commands:">>, ""))

C19_SelfTargetRefused ==
    [][\A a \in Socks : \A command \in SelfTargetCommands :
          AdminCommand(a, command) =>
              /\ clients' = clients
              /\ sock' = sock
              /\ db_bans' = db_bans
              /\ ban_db' = ban_db
              /\ muted_users' = muted_users
              /\ msg_db' = msg_db
              /\ \A r \in Socks \ {a} : inbox'[r] = inbox[r]
              /\ inbox'[a] =
                    Append(inbox[a],
                           build_response(ADMIN_MSG,
                               <<"You cannot", Tail1(command[1]), "yourself or another admin.">>,
                               ""))]_vars

\* an admin was refused a /kick of itself while a peer was connected
C19_Witness ==
    \E a \in Socks :
        /\ build_response(ADMIN_MSG,
               <<"You cannot", "kick", "yourself or another admin.">>, "")
              \in Range(inbox[a])
        /\ Cardinality(Keys(clients)) >= 2


(***************************************************************************)
(* The one-shot mute warning (C20).                                        *)
(***************************************************************************)
IsMuteWarning(m) == ~m.raw /\ m.flag = ADMIN_MSG /\ m.message[1] = "You are muted for"

IsMuteNotice(m) == ~m.raw /\ m.flag = ADMIN_MUTE

\* the sockets that are sent a mute warning, or a mute notice, in a step
Warned(c) == \E i \in DOMAIN NewIn(c) : IsMuteWarning(NewIn(c)[i])

Noticed(c) == \E i \in DOMAIN NewIn(c) : IsMuteNotice(NewIn(c)[i])

LiveMute(u) == u \in DOMAIN muted_users /\ now' < muted_users[u].until

MuteWarnings(c) == Cardinality({i \in DOMAIN inbox[c] : IsMuteWarning(inbox[c][i])})

C18_FramesIntact ==
    \A c \in Socks :
        /\ codec[c].running
        /\ codec[c].out = SubSeq(Envelopes(c), 1, codec[c].pos \div 3)


(***************************************************************************)
(* The rate limiter after an idle period (C21).                            *)
(***************************************************************************)
\* the connection's window is full: max_messages counted timestamps
Full(c) == c \in DOMAIN user_timestamps /\ Len(user_timestamps[c]) >= max_messages

\* the last timestamp counted for the connection
LastCounted(c) == user_timestamps[c][Len(user_timestamps[c])]

\* C21 as stated: with a full window, a frame that arrives interval seconds
\* or more after the last counted timestamp is allowed.
C21_AllowedAtInterval ==
    [][\A c \in Socks :
          (RateCheck(c) /\ Full(c) /\ now - LastCounted(c) >= interval)
              => allowed'[c] = Append(allowed[c], now)]_vars

\* C21: with a full window, a frame that arrives more than interval seconds
\* after the last counted timestamp is allowed; one that arrives exactly
\* interval seconds after it is allowed when the oldest counted timestamp is
\* earlier than the last one, and refused when all of them are equal (an
\* entry is dropped only when it is older than now - interval).
C21_AllowedAfterInterval ==
    [][\A c \in Socks :
          (RateCheck(c) /\ Full(c) /\ now - LastCounted(c) >= interval) =>
              IF now - Head(user_timestamps[c]) > interval
              THEN /\ allowed'[c] = Append(allowed[c], now)
                   /\ LastCounted(c)' = now
              ELSE /\ allowed' = allowed
                   /\ user_timestamps'[c] = user_timestamps[c]]_vars

\* a connection filled its window, sent nothing for interval seconds, and its
\* next frame, exactly interval seconds after the last counted one, was allowed
C21_Witness ==
    \E c \in Socks :
        /\ Len(allowed[c]) = max_messages + 1
        /\ ncalls = max_messages + 1
        /\ allowed[c][max_messages + 1] - allowed[c][max_messages] = interval


(***************************************************************************)
(* Sends that fail (C22, C23).                                             *)
(***************************************************************************)
\* what a fan-out of envelope env that skips socket skip leaves in r's stream
Delivered(r, skip, env) ==
    IF r \in Keys(clients) /\ r # skip /\ sock[r] = "open"
    THEN Append(inbox[r], env)
    ELSE inbox[r]

\* C22: a send that fails during a fan-out stays with its recipient: every
\* other member of the registry whose socket works is sent the envelope,
\* whatever its place in the registry, and the caller goes on (the log entry
\* is made, the session keeps running).
C22_SendFailureIsolated ==
    /\ [][\A c \in Socks : \A skip \in {0, c} :
            FanOut(c, skip) =>
                LET env == build_response("", <<Payloads[nframes + 1]>>, uname[c])
                IN  /\ \A r \in Socks : inbox'[r] = Delivered(r, skip, env)
                    /\ msg_db' = Append(msg_db, env)
                    /\ task'[c] = "loop"
                    /\ clients' = clients]_vars
    /\ [][\A c \in Socks :
            ProcessChat(c) =>
                LET env == Raw(<<uname[c], DefaultTimestamp, Payloads[nframes + 1]>>)
                IN  /\ \A r \in Socks : inbox'[r] = Delivered(r, 0, env)
                    /\ task'[c] = "append"
                    /\ pending'[c] # NoFrame]_vars

\* a member whose peer is gone stands in the registry ahead of a member that
\* was sent a chat envelope the first one did not get
C22_Witness ==
    \E i, j \in DOMAIN clients :
        /\ i < j
        /\ sock[clients[i][1]] = "broken"
        /\ \E k \in DOMAIN inbox[clients[j][1]] :
              LET m == inbox[clients[j][1]][k]
              IN  /\ ~m.raw
                  /\ m.flag = ""
                  /\ m.sender # ""
                  /\ m.sender # clients[i][2]
                  /\ m \notin Range(inbox[clients[i][1]])

\* C23: a member to which a send of a fan-out fails is removed from the
\* registry and its socket is closed.
C23_FailedSendRemoves ==
    [][\A c \in Socks :
          (ProcessChat(c) \/ \E skip \in {0, c} : FanOut(c, skip)) =>
              \A b \in Keys(clients) :
                  (b # c /\ sock[b] = "broken") =>
                      (b \notin Keys(clients') /\ sock'[b] = "closed")]_vars


(***************************************************************************)
(* The locks (C24-C26).                                                    *)
(***************************************************************************)
NextStep(t) == Head(ops[t])

Holds(t) == lock.depth > 0 /\ lock.owner = t

\* C24: no thread holds the global lock while it writes to a socket: the
\* lock is released after the registry snapshot and before the first send.
C24_NoLockAcrossSend ==
    \A t \in Threads :
        (ops[t] # <<>> /\ NextStep(t).op = "send") => ~Holds(t)

\* thread t is at an acquire that cannot go on
Waiting(t) ==
    /\ ops[t] # <<>>
    /\ NextStep(t).op = "acquire"
    /\ ~CanAcquire(lock, t)

\* the releases less the acquires among the steps a thread has still to run
RECURSIVE Balance(_)
Balance(steps) ==
    IF steps = <<>> THEN 0
    ELSE Balance(Tail(steps))
             + (CASE Head(steps).op = "release" -> 1
                  [] Head(steps).op = "acquire" -> -1
                  [] OTHER -> 0)

\* C25: no thread ever waits for a lock it holds itself (remove_client
\* calling broadcast and broadcast_active_users goes on), a thread that
\* waits for the lock waits for a thread that can run, and the holder has
\* every release of the lock still ahead of it: no interleaving of the
\* sessions, the acceptor and the shutdown ends in a deadlock.
C25_NoDeadlock ==
    /\ \A t \in Threads :
          Waiting(t) =>
              /\ lock.owner # t
              /\ ops[lock.owner] # <<>>
              /\ ~Waiting(lock.owner)
    /\ lock.depth > 0 => Balance(ops[lock.owner]) = lock.depth
    /\ \A t \in Threads : ~Holds(t) => Balance(ops[t]) = 0

\* a leaving session holds the lock twice over (remove_client, and broadcast
\* inside it) while another thread waits for the lock
C25_Witness ==
    \E t \in Socks : \E w \in Threads \ {t} :
        /\ Holds(t)
        /\ lock.depth = 2
        /\ task[t] = "done"
        /\ Waiting(w)

\* the steps that iterate over or change the registry or the message log
GuardedSteps == {"for_clients", "user_list", "for_others", "pop", "pop_stopped",
                 "insert", "append", "keys"}

\* C26: the registry and the message log are iterated over and changed only
\* by a thread that holds the global lock.
C26_GuardedByLock ==
    \A t \in Threads :
        (ops[t] # <<>> /\ NextStep(t).op \in GuardedSteps) => Holds(t)


(***************************************************************************)
(* The message log of the first server (C27-C29).                          *)
(***************************************************************************)
\* the frame a log entry was broadcast as
FrameOf(entry) == Raw(<<entry.user, entry.timestamp, entry.message>>)

\* C27: the message log holds the chat frames only, one entry per broadcast,
\* in the order in which they were broadcast: of two entries, the earlier
\* one was sent to every peer that got both before the later one.
C27_LogInBroadcastOrder ==
    /\ \A i \in DOMAIN msg_db : msg_db[i].message \in Range(Payloads)
    /\ \A i, j \in DOMAIN msg_db : (msg_db[i] = msg_db[j]) => (i = j)
    /\ \A r \in Socks : \A i, j \in DOMAIN msg_db :
          (/\ i < j
           /\ FrameOf(msg_db[i]) \in Range(inbox[r])
           /\ FrameOf(msg_db[j]) \in Range(inbox[r]))
              => Index(inbox[r], FrameOf(msg_db[i])) < Index(inbox[r], FrameOf(msg_db[j]))

\* a chat message as a peer is sent it: a frame of the first server
\* (user::timestamp::text), or a chat envelope of the second
IsChatFrame(m) ==
    IF m.raw
    THEN Len(m.message) = 3 /\ m.message[2] = DefaultTimestamp
    ELSE m.flag = "" /\ m.sender # ""

\* the log holds the entry of chat message m
Logged(m) ==
    \E i \in DOMAIN msg_db :
        IF m.raw
        THEN /\ DOMAIN msg_db[i] = {"user", "message", "timestamp"}
             /\ FrameOf(msg_db[i]) = m
        ELSE /\ DOMAIN msg_db[i] = DOMAIN m
             /\ msg_db[i] = m

\* C28: a chat message is appended to the message log before it is sent to
\* the first recipient: whatever chat message a peer has been sent is in
\* the log.
C28_LoggedBeforeSent ==
    \A r \in Socks : \A k \in DOMAIN inbox[r] :
        IsChatFrame(inbox[r][k]) => Logged(inbox[r][k])

\* C29: a read of zero bytes (the peer has closed) ends the session loop and
\* removes the connection: it leaves the registry and its socket is closed.
C29_PeerCloseRemoves ==
    [][\A c \in Socks :
          ProcessData(c, <<"">>) =>
              /\ task'[c] = "done"
              /\ c \notin Keys(clients')
              /\ sock'[c] = "closed"]_vars


KickNotice(target, admin) ==
    build_response("", <<target, "was kicked by [ADMIN]", admin>>, "")

\* the envelopes a step sends that tell of somebody leaving
LeftIn(r) ==
    {i \in DOMAIN NewIn(r) :
        /\ NewIn(r)[i].message # <<>>
        /\ NewIn(r)[i].message[Len(NewIn(r)[i].message)] = "has left the chat!"}

\* C31: a /kick of a connected user that is no admin takes the user's
\* connection out of the registry and closes its socket; every member is
\* sent "<target> was kicked by [ADMIN] <admin>", nobody is sent a "has
\* left", and the members that stay are sent, last, the user list of the
\* registry without that connection.  A /kick of a user that is not
\* connected changes nothing and answers the caller with one ADMIN_MSG.
C31_KickRemovesSilently ==
    [][\A a \in Socks : \A command \in KickCommands :
          AdminCommand(a, command) =>
              LET target == command[2]
                  k == find_client_by_username(M, target)
              IN  /\ msg_db' = msg_db
                  /\ db_bans' = db_bans
                  /\ muted_users' = muted_users
                  /\ \A r \in Socks : LeftIn(r) = {}
                  /\ IF k = 0
                     THEN /\ clients' = clients
                          /\ sock' = sock
                          /\ \A r \in Socks \ {a} : inbox'[r] = inbox[r]
                          /\ inbox'[a] =
                                Append(inbox[a],
                                       build_response(ADMIN_MSG,
                                           <<"User", target, "is not online.">>, ""))
                     ELSE /\ clients' = Pop(clients, k)
                          /\ k \notin Keys(clients')
                          /\ sock'[k] = "closed"
                          /\ inbox'[k] = Append(inbox[k], KickNotice(target, uname[a]))
                          /\ \A r \in Keys(clients) \ {k} :
                                inbox'[r] =
                                    inbox[r] \o
                                      << KickNotice(target, uname[a]),
                                         build_response(USER_LIST_UPDATE,
                                             Values(Pop(clients, k)), "") >>]_vars

\* a connected user was kicked: its socket is closed, it is out of the
\* registry, and the admin that stayed was sent the notice and the new list
C31_Witness ==
    \E a \in Keys(clients) : \E k \in Socks \ {a} :
        /\ Removed(k)
        /\ sock[k] = "closed"
        /\ Len(inbox[a]) >= 2
        /\ inbox[a][Len(inbox[a]) - 1] = KickNotice(uname[k], uname[a])
        /\ inbox[a][Len(inbox[a])] = build_response(USER_LIST_UPDATE, Values(clients), "")


\* the words of ^[0-9]+[smh]$
MatchesDuration(chars) ==
    /\ Len(chars) >= 2
    /\ chars[Len(chars)] \in {"s", "m", "h"}
    /\ \A i \in 1..(Len(chars) - 1) : chars[i] \in Range(Digits)

InvalidDuration == build_response(ADMIN_MSG, <<"Invalid duration. Use 10s, 2m, or 1h.">>, "")

\* C32: a /mute of a connected user changes the mute table only when its
\* duration word is one or more digits followed by one of s, m, h; with any
\* other duration word, or none, the table stays as it was and the caller
\* is sent the "Invalid duration" ADMIN_MSG.
C32_StrictDuration ==
    [][\A a \in Socks : \A command \in DurationCommands :
          (AdminCommand(a, command) /\ find_client_by_username(M, command[2]) # 0) =>
              \/ Len(command) >= 3 /\ MatchesDuration(Chars(command[3]))
              \/ /\ muted_users' = muted_users
                 /\ inbox'[a] = Append(inbox[a], InvalidDuration)]_vars


(***************************************************************************)
(* Rate-limit notices (C33).                                               *)
(***************************************************************************)
RateNotice ==
    build_response(ADMIN_MSG,
        <<"Rate limit: max", ToString(max_messages), "messages every",
          ToString(interval), "s. Please slow down.">>, "")

\* how many rate-limit notices a stream holds
Notices(stream) == Cardinality({i \in DOMAIN stream : stream[i] = RateNotice})

\* C33: a frame the rate limit denies is dropped: nothing is logged, nobody
\* else is sent anything, and no timestamp is added to the sender's window.
\* While the sender's window is the first one it filled (no more than
\* max_messages of its frames were ever allowed, so every denial falls in
\* the interval that starts at its first frame), the sender has been sent at
\* most one rate-limit ADMIN_MSG.
C33_NoticeOncePerWindow ==
    [][\A c \in Socks :
          (RateCheck(c) /\ allowed' = allowed) =>
              /\ msg_db' = msg_db
              /\ \A r \in Socks \ {c} : inbox'[r] = inbox[r]
              /\ Len(user_timestamps'[c]) <= Len(user_timestamps[c])
              /\ Len(allowed[c]) <= max_messages => Notices(inbox'[c]) <= 1]_vars


(***************************************************************************)
(* Failures while the credentials are read (C34).                          *)
(***************************************************************************)
\* C34: when reading or verifying the credentials of a new connection fails
\* (reset during the read, bytes that do not decode, a string that does not
\* split into a username and a password), nothing but that connection is
\* touched: is_running stays true, no shutdown begins, the registry and the
\* other sockets are as before, and the acceptor still accepts.
C34_CredentialFailureIsolated ==
    [][\A addr \in Addresses : \A read \in BadReads :
          AcceptFailure(addr, read) =>
              /\ is_running'
              /\ stop_pc' = "idle"
              /\ clients' = clients
              /\ \A c \in Socks \ {nconn'} : sock'[c] = sock[c]]_vars


(***************************************************************************)
(* A mute and a concurrent check_mute (C35).                               *)
(***************************************************************************)
\* C35: an entry of the mute table with expiry until stays in the table
\* (its warned flag may change) through every step but two: a /mute of the
\* same user, which replaces it, and the end of a check_mute of that user
\* whose now is at or after until.
C35_MuteSurvivesPurge ==
    [][\A u \in DOMAIN muted_users :
          \/ /\ u \in DOMAIN muted_users'
             /\ muted_users'[u].until = muted_users[u].until
          \/ \E a \in Socks : RaceMute(a, MuteCommand) /\ MuteCommand[2] = u
          \/ \E c \in Socks :
                /\ MuteFinish(c)
                /\ uname[c] = u
                /\ mute_local[c].t >= muted_users[u].until]_vars


(***************************************************************************)
(* The ClientManager's maps (C36).                                         *)
(***************************************************************************)
\* C36: whenever the manager's lock is free, exit_flags and futures have
\* the same keys, and a client whose handler has returned and whose cleanup
\* has run is in neither map.
C36_MapsAgree ==
    mgr.lock = "free" =>
        /\ mgr.exit_flags = mgr.futures
        /\ \A c \in Socks :
              mgr.handler[c] = "cleaned" => c \notin mgr.exit_flags \cup mgr.futures

====
